---- MODULE Spec2Model ----
(***************************************************************************)
(* Model of the comps / roi / hot-radar core of langgraph-ebay.             *)
(*                                                                         *)
(* Units.  Time is counted in half minutes (30 s), so that "under one      *)
(* whole minute left" is distinguishable from "already ended".  Money is   *)
(* counted in mills (1/1000 GBP): a price of 40.00 is 40000, and the       *)
(* half-penny values PERCENTILE_CONT can produce are whole numbers.         *)
(* Ratios (ROI, fee rate, grade weights) are in percent and are compared   *)
(* by exact rational arithmetic.  Within one handler every clock read      *)
(* (Python's datetime.now and the database's now()) returns the same        *)
(* instant.                                                                *)
(*                                                                         *)
(* model_key values are sequences of one-character strings, so that        *)
(* splitting at the last underscore is computed, not assumed.              *)
(***************************************************************************)
EXTENDS Integers, Sequences, FiniteSets, TLC

VARIABLES
    clock,      \* wall clock / database now(), half minutes
    listings,   \* auction_listings: external_id -> row
    comps,      \* comps table: set of rows
    markers,    \* roi_alert_markers table (committed rows): set of rows
    snapshots,  \* roi_snapshots table (committed rows): external_id -> row count
    notified,   \* calls of _send_*_email so far: <<external_id, marker>> -> count
    evals,      \* history: <<external_id, marker>> -> committed ticks that met the tier's thresholds
    prevSiren,  \* history: external_id -> the latest committed siren-qualifying evaluation
    trail,      \* history: external_id -> the roi trajectory over the committed, unexpired evaluations
    ticks,      \* number of ROI ticks run so far
    rollbacks,  \* number of ROI ticks that ended in conn.rollback()
    alerts,     \* alerts table: set of rows
    alertSeq,   \* the next value of the sequence behind alerts.id
    alertCalls, \* history: external_id -> calls of record_alert that returned
    lastAlert,  \* history: the latest call of record_alert, its arguments and its result
    compsPc,    \* the node the comps run in progress executes next, "idle" when none runs
    latestComps,\* latest_comps materialized view: set of rows
    compsRuns,  \* number of comps recomputes started so far
    compsPrev,  \* history: the comps table when the latest recompute started
    compsFailed,\* history: the steps of the latest recompute that raised
    readerSaw,  \* history: the latest load of latest_comps_map
    rc,         \* comps runs of separate processes: process -> position in the graph
    lastDecide, \* history: what the latest _node_decide_should_run saw
    computeLog, \* history: the latest two committed inserts of _compute_daily_comps
    wk,         \* ROI workers (separate processes): worker -> position in _process_roi_alerts
    fn,         \* the latest call of a pure helper: its name, arguments and result
    alertState, \* alert_state.last_sent_at of the roi digest row, Null when there is no row
    digests,    \* history: the digests send_email delivered, oldest first
    hotMails,   \* history: external_id -> hot-radar emails delivered
    hotTick,    \* history: what the latest hot-radar tick fetched, upserted and emailed
    tickLog     \* history: the failures caught inside the latest roi tick that had any

roiVars == <<markers, snapshots, notified, evals, prevSiren, trail, ticks, rollbacks>>
alertVars == <<alerts, alertSeq, alertCalls, lastAlert>>
recomputeVars == <<compsPc, latestComps, compsRuns, compsPrev, compsFailed, readerSaw, rc,
                  lastDecide, computeLog>>
workerVars == <<wk>>
callVars == <<fn>>
mailVars == <<alertState, digests, hotMails, hotTick, tickLog>>
vars == <<clock, listings, comps, markers, snapshots, notified, evals, prevSiren, trail, ticks,
          rollbacks, alerts, alertSeq, alertCalls, lastAlert, compsPc, latestComps, compsRuns,
          compsPrev, compsFailed, readerSaw, rc, lastDecide, computeLog,
          wk, fn, alertState, digests, hotMails, hotTick, tickLog>>

(***************************************************************************)
(* Bounds of the model.                                                    *)
(***************************************************************************)
MaxTicks == 3
MaxRollbacks == 1
MaxClock == 12
MaxAlertCalls == 3
MaxCompsRuns == 2
MaxCompsClock == 1440
MaxDecides == 3         \* calls of the comps run() entry point
MaxOverlapTicks == 2

(***************************************************************************)
(* Program constants.                                                      *)
(***************************************************************************)
MIN_PROFIT_GBP == 50000
MIN_ROI == 25
FEE_RATE == 13
INBOUND_SHIP_DEFAULT_GBP == 0
OUTBOUND_SHIP_DEFAULT_GBP == 7000
BUCKET_STEP == 25
NEW_HIGH_ROI == 300
NEW_HIGH_PROFIT_GBP == 100000
ENDGAME_WINDOW == 120
ENDGAME_MIN_ROI == 25
ENDGAME_MIN_PROFIT_GBP == 50000
SIREN_COOLDOWN == 10
MinSamples == 3
SecondsPerMinute == 2
PennyMills == 10

\* (variant: the bikes baseline weighs as much as grade B)
GRADE_WEIGHTS_BikesAsB ==
    ("A" :> 100) @@ ("B" :> 85) @@ ("C" :> 70) @@ ("D" :> 50) @@ ("b" :> 85)

GRADE_WEIGHTS ==
    ("A" :> 100) @@ ("B" :> 85) @@ ("C" :> 70) @@ ("D" :> 50) @@ ("b" :> 80)

\* (variant: the search starts at the lowest grade)
GradeSearchOrder_LowestFirst == <<"b", "D", "C", "B", "A">>

GradeSearchOrder == <<"A", "B", "C", "D", "b">>

\* Python None / SQL NULL for a number or timestamp, and for a model_key.
Null == 0 - 1
NullKey == <<"NULL">>

(***************************************************************************)
(* Pure helpers.                                                           *)
(***************************************************************************)
Abs(x) == IF x < 0 THEN 0 - x ELSE x

\* the element of a singleton set; The({F(x) : x \in {e}}) is "x = e; F(x)"
The(S) == CHOOSE x \in S : TRUE

\* Decimal.quantize(..., ROUND_HALF_UP) of n/d to a whole number: ties go
\* away from zero.
RoundHalfUp(n, d) ==
    LET a == Abs(n)
        q == a \div d
        r == a % d
        m == IF 2 * r >= d THEN q + 1 ELSE q
    IN IF n >= 0 THEN m ELSE 0 - m

\* _money: n/d mills rounded half-up to the penny, in mills.
Money(n, d) == PennyMills * RoundHalfUp(n, PennyMills * d)

IsSpace(c) == c = " "

RECURSIVE LStrip(_)
LStrip(s) == IF s # <<>> /\ IsSpace(Head(s)) THEN LStrip(Tail(s)) ELSE s

RECURSIVE RStrip(_)
RStrip(s) ==
    IF s # <<>> /\ IsSpace(s[Len(s)]) THEN RStrip(SubSeq(s, 1, Len(s) - 1)) ELSE s

Strip(s) == RStrip(LStrip(s))

LowerChar(c) ==
    CASE c = "U" -> "u" [] c = "N" -> "n" [] c = "K" -> "k" [] c = "O" -> "o"
      [] c = "W" -> "w" [] c = "A" -> "a" [] c = "B" -> "b" [] c = "C" -> "c"
      [] c = "D" -> "d" [] OTHER -> c

Lower(s) == [i \in 1..Len(s) |-> LowerChar(s[i])]

\* Position of the last "_" of s, 0 when there is none.
LastUnderscore(s) ==
    IF \E i \in 1..Len(s) : s[i] = "_"
    THEN CHOOSE i \in 1..Len(s) : s[i] = "_" /\ \A j \in (i + 1)..Len(s) : s[j] # "_"
    ELSE 0

\* (variant: whatever follows the last underscore counts as a grade)
SplitModelKeyGrade_AnySuffix(model_key) ==
    IF model_key = NullKey \/ model_key = <<>> THEN <<(<<>>), (<<>>)>>
    ELSE LET s == Strip(model_key)
             u == LastUnderscore(s)
         IN IF u = 0 THEN <<s, (<<>>)>>
            ELSE <<SubSeq(s, 1, u - 1), Strip(SubSeq(s, u + 1, Len(s)))>>

\* _split_model_key_grade: <<base, grade>>, grade <<>> standing for None.
SplitModelKeyGrade(model_key) ==
    IF model_key = NullKey \/ model_key = <<>> THEN <<(<<>>), (<<>>)>>
    ELSE LET s == Strip(model_key)
             u == LastUnderscore(s)
         IN IF u = 0 THEN <<s, (<<>>)>>
            ELSE LET base == SubSeq(s, 1, u - 1)
                     suffix == Strip(SubSeq(s, u + 1, Len(s)))
                 IN IF Len(suffix) = 1 /\ suffix[1] \in DOMAIN GRADE_WEIGHTS
                    THEN <<base, suffix>>
                    ELSE <<s, (<<>>)>>

IsInvestibleModelKey(model_key) ==
    /\ model_key # NullKey
    /\ model_key # <<>>
    /\ Strip(model_key) # <<>>
    /\ Lower(Strip(model_key)) # <<"u", "n", "k", "n", "o", "w", "n">>

(***************************************************************************)
(* Comps lookup and grade-aware matching.                                  *)
(***************************************************************************)
CompKeys(tbl) == {r.model_key : r \in tbl}

\* latest_comps_map: per model_key the row with the newest computed_at.
LatestCompsMap(tbl) ==
    [k \in CompKeys(tbl) |->
        CHOOSE r \in tbl : r.model_key = k
                           /\ \A q \in tbl : q.model_key = k => q.computed_at <= r.computed_at]

\* the rows of latest_comps_map, and of the latest_comps view once refreshed
LatestRows(tbl) == {LatestCompsMap(tbl)[k] : k \in CompKeys(tbl)}

NoComp == [found |-> FALSE, comp_key |-> <<>>, samples |-> 0, num |-> 0, den |-> 1]

RECURSIVE FirstAltKey(_, _, _, _)
FirstAltKey(base, model_key, cmap, i) ==
    IF i > Len(GradeSearchOrder) THEN <<>>
    ELSE LET alt_key == base \o <<"_", GradeSearchOrder[i]>>
         IN IF alt_key # model_key /\ alt_key \in DOMAIN cmap
            THEN alt_key
            ELSE FirstAltKey(base, model_key, cmap, i + 1)

\* float(comp.get("median_final_price") or 0.0)
MedianOrZero(comp) ==
    IF comp.median_final_price = Null THEN 0 ELSE comp.median_final_price

\* (variant: only a negative median is turned away)
NonPositive_OnlyNegative(median) == median < 0

\* median <= 0.0
NonPositive(median) == median <= 0

\* _get_comp_with_grade_adjustment: the comp and the adjusted median as the
\* rational num/den (mills).
GetCompWithGradeAdjustment(model_key, cmap) ==
    IF model_key = NullKey \/ model_key = <<>> THEN NoComp
    ELSE LET sp == SplitModelKeyGrade(model_key)
             base == sp[1]
             listing_grade == sp[2]
             comp_key == IF model_key \in DOMAIN cmap THEN model_key
                         ELSE IF base # <<>> THEN FirstAltKey(base, model_key, cmap, 1)
                         ELSE <<>>
         IN IF comp_key = <<>> \/ comp_key \notin DOMAIN cmap THEN NoComp
            ELSE LET comp == cmap[comp_key]
                     median == MedianOrZero(comp)
                     comp_grade == SplitModelKeyGrade(comp_key)[2]
                 IN IF NonPositive(median) THEN NoComp
                    ELSE IF /\ listing_grade # <<>>
                            /\ comp_grade # <<>>
                            /\ listing_grade[1] \in DOMAIN GRADE_WEIGHTS
                            /\ comp_grade[1] \in DOMAIN GRADE_WEIGHTS
                         THEN [found |-> TRUE, comp_key |-> comp_key, samples |-> comp.samples,
                               num |-> median * GRADE_WEIGHTS[listing_grade[1]],
                               den |-> GRADE_WEIGHTS[comp_grade[1]]]
                         ELSE [found |-> TRUE, comp_key |-> comp_key, samples |-> comp.samples,
                               num |-> median, den |-> 1]

(***************************************************************************)
(* Profit / ROI estimator.  roi is kept as the rational roi_num/roi_den.   *)
(***************************************************************************)
EstimateProfit(ask_price, num, den, fee_rate, outbound_ship, inbound_ship) ==
    LET fees == Money(num * fee_rate, den * 100)
        purchase_cost == ask_price + inbound_ship
        profit == Money(num - (fees + outbound_ship + purchase_cost) * den, den)
    IN [fees |-> fees, profit |-> profit,
        roi_num |-> IF purchase_cost <= 0 THEN 0 ELSE profit,
        roi_den |-> IF purchase_cost <= 0 THEN 1 ELSE purchase_cost]

\* _money of a float: the value n/d (mills) is the result of binary floating-point
\* arithmetic, so when the exact value lies halfway between two pence the double
\* handed to Decimal().quantize lies just below or just above it
MoneyOutcomes(n, d) ==
    IF 2 * (Abs(n) % (PennyMills * d)) = PennyMills * d
    THEN {Money(n, d), Money(n, d) - (IF n >= 0 THEN PennyMills ELSE 0 - PennyMills)}
    ELSE {Money(n, d)}

\* _estimate_profit over floats: every (fees, profit, roi) it can return;
\* EstimateProfit is the only one when no intermediate value is a half penny
EstimateProfitOutcomes(ask_price, num, den, fee_rate, outbound_ship, inbound_ship) ==
    {[fees |-> fees, profit |-> profit,
      roi_num |-> IF ask_price + inbound_ship <= 0 THEN 0 ELSE profit,
      roi_den |-> IF ask_price + inbound_ship <= 0 THEN 1 ELSE ask_price + inbound_ship] :
       <<fees, profit>> \in
          UNION {{<<f, q>> : q \in MoneyOutcomes(num - (f + outbound_ship + ask_price
                                                             + inbound_ship) * den, den)} :
                   f \in MoneyOutcomes(num * fee_rate, den * 100)}}

\* roi >= pct percent
RoiGE(op, pct) == op.roi_num * 100 >= pct * op.roi_den

\* (variant: the bucket index counted from the upper edge of the step)
RoiBucket_UpperEdge(op) == (op.roi_num * 100) \div (op.roi_den * BUCKET_STEP) + 1

\* int(op.roi // BUCKET_STEP)
RoiBucket(op) == (op.roi_num * 100) \div (op.roi_den * BUCKET_STEP)

ActiveStatuses == {"active", "live", "open", "ending_soon"}

\* _fetch_active_listings, in the order the database returns the rows
FetchActiveListings(order) ==
    SelectSeq(order, LAMBDA e : listings[e].status \in ActiveStatuses
                                /\ listings[e].price_current # Null)

\* the Opportunity _build_all_opps_for_roi appends for one listing
MakeOpportunity(e, li, res, est) ==
    [external_id |-> e,
     model_key |-> li.model_key,
     comps_samples |-> res.samples,
     comps_median |-> Money(res.num, res.den),
     purchase_cost |-> Money(li.price_current + INBOUND_SHIP_DEFAULT_GBP, 1),
     outbound_ship |-> OUTBOUND_SHIP_DEFAULT_GBP,
     fees |-> est.fees,
     profit |-> est.profit,
     roi_num |-> est.roi_num,
     roi_den |-> est.roi_den,
     end_time |-> li.end_time]

\* one iteration of the loop of _build_all_opps_for_roi: the opportunities of listing e
OppsOfListing(e, li, res) ==
    IF ~IsInvestibleModelKey(li.model_key) THEN <<>>
    ELSE IF ~res.found THEN <<>>
    ELSE IF res.samples < MinSamples THEN <<>>
    ELSE The({<<MakeOpportunity(e, li, res, est)>> :
              est \in {EstimateProfit(li.price_current, res.num, res.den, FEE_RATE,
                                      OUTBOUND_SHIP_DEFAULT_GBP, INBOUND_SHIP_DEFAULT_GBP)}})

\* _build_all_opps_for_roi
RECURSIVE BuildAllOppsForRoi(_, _, _)
BuildAllOppsForRoi(ids, i, cmap) ==
    IF i > Len(ids) THEN <<>>
    ELSE The({OppsOfListing(ids[i], listings[ids[i]], res) :
              res \in {GetCompWithGradeAdjustment(listings[ids[i]].model_key, cmap)}})
         \o BuildAllOppsForRoi(ids, i + 1, cmap)

(***************************************************************************)
(* Shortlist.                                                              *)
(***************************************************************************)
\* cfg.get(k, d) of a PER_SOURCE entry
CfgGet(cfg, k, d) == IF k \in DOMAIN cfg THEN cfg[k] ELSE d

\* _source_cfg, PER_SOURCE being per_source
SourceCfg(source, per_source) ==
    LET cfg == IF source # "" /\ source \in DOMAIN per_source
               THEN per_source[source] ELSE <<>>
    IN [min_profit |-> CfgGet(cfg, "min_profit", MIN_PROFIT_GBP),
        min_roi |-> CfgGet(cfg, "min_roi", MIN_ROI),
        outbound_ship |-> CfgGet(cfg, "outbound_ship", OUTBOUND_SHIP_DEFAULT_GBP),
        fee_rate |-> CfgGet(cfg, "fee_rate", FEE_RATE)]

\* one iteration of the loop of _shortlist: the opportunities of listing e
ShortlistOfListing(e, li, res, cfg) ==
    IF ~IsInvestibleModelKey(li.model_key) THEN <<>>
    ELSE IF ~res.found THEN <<>>
    ELSE IF res.samples < MinSamples THEN <<>>
    ELSE The({IF est.profit >= cfg.min_profit /\ RoiGE(est, cfg.min_roi)
              THEN <<[MakeOpportunity(e, li, res, est)
                         EXCEPT !.outbound_ship = cfg.outbound_ship]
                     @@ [source |-> li.source]>>
              ELSE <<>> :
              est \in {EstimateProfit(li.price_current, res.num, res.den, cfg.fee_rate,
                                      cfg.outbound_ship, INBOUND_SHIP_DEFAULT_GBP)}})

\* the loop of _shortlist, before the sort
RECURSIVE ShortlistLoop(_, _, _, _)
ShortlistLoop(ids, i, cmap, per_source) ==
    IF i > Len(ids) THEN <<>>
    ELSE The({ShortlistOfListing(ids[i], listings[ids[i]], res,
                                 SourceCfg(listings[ids[i]].source, per_source)) :
              res \in {GetCompWithGradeAdjustment(listings[ids[i]].model_key, cmap)}})
         \o ShortlistLoop(ids, i + 1, cmap, per_source)

\* (variant: roi is the primary sort key)
SortKeyGreater_RoiFirst(a, b) ==
    \/ (a.roi_num \div PennyMills) * (b.roi_den \div PennyMills)
          > (b.roi_num \div PennyMills) * (a.roi_den \div PennyMills)
    \/ /\ (a.roi_num \div PennyMills) * (b.roi_den \div PennyMills)
             = (b.roi_num \div PennyMills) * (a.roi_den \div PennyMills)
       /\ a.profit > b.profit

\* (o.profit, o.roi) of a is greater than that of b; profit and purchase cost
\* are whole pence, so the rois are compared in pence
SortKeyGreater(a, b) ==
    \/ a.profit > b.profit
    \/ /\ a.profit = b.profit
       /\ (a.roi_num \div PennyMills) * (b.roi_den \div PennyMills)
             > (b.roi_num \div PennyMills) * (a.roi_den \div PennyMills)

\* the place of out[i] after out.sort(key=(profit, roi), reverse=True): the
\* sort is stable, equal keys keep their order
SortedPlace(out, i) ==
    1 + Cardinality({j \in 1..Len(out) :
                       \/ SortKeyGreater(out[j], out[i])
                       \/ (~SortKeyGreater(out[i], out[j]) /\ j < i)})

\* _shortlist
Shortlist(ids, cmap, per_source) ==
    The({[p \in 1..Len(out) |-> out[CHOOSE i \in 1..Len(out) : SortedPlace(out, i) = p]] :
         out \in {ShortlistLoop(ids, 1, cmap, per_source)}})

(***************************************************************************)
(* Alert marker engine.                                                    *)
(***************************************************************************)
NewHigh == [kind |-> "new_high", n |-> 0]
Siren == [kind |-> "siren", n |-> 0]
BucketMarker(b) == [kind |-> "bucket", n |-> b]

\* (variant: "expired" only once the end time has passed)
HumaniseExpired_OnlyWhenPassed(end_time, now) ==
    end_time # Null /\ end_time - now <= 0

\* _humanise_time_left(end_time) = "expired"
HumaniseExpired(end_time, now) ==
    end_time # Null /\ (end_time - now) \div SecondsPerMinute <= 0

MarkerExists(tbl, external_id, marker) ==
    \E r \in tbl : r.external_id = external_id /\ r.marker = marker

\* _marker_last_created_at, Null for None
MarkerLastCreatedAt(tbl, external_id, marker) ==
    IF MarkerExists(tbl, external_id, marker)
    THEN (CHOOSE r \in tbl : r.external_id = external_id /\ r.marker = marker).created_at
    ELSE Null

\* _insert_marker: INSERT ... ON CONFLICT (external_id, marker) DO UPDATE SET created_at
InsertMarker(tbl, external_id, marker, now) ==
    {r \in tbl : ~(r.external_id = external_id /\ r.marker = marker)}
        \cup {[external_id |-> external_id, marker |-> marker, created_at |-> now]}

\* (variant: new_high without the existence check before the insert)
NewHighStep_NoExistenceCheck(acc, op, now) ==
    IF op.profit >= NEW_HIGH_PROFIT_GBP /\ RoiGE(op, NEW_HIGH_ROI)
    THEN [acc EXCEPT !.tbl = InsertMarker(acc.tbl, op.external_id, NewHigh, now),
                     !.mails = Append(acc.mails, <<op.external_id, NewHigh>>)]
    ELSE acc

\* the one-shot new_high tier of _process_roi_alerts
NewHighStep(acc, op, now) ==
    IF op.profit >= NEW_HIGH_PROFIT_GBP /\ RoiGE(op, NEW_HIGH_ROI)
       /\ ~MarkerExists(acc.tbl, op.external_id, NewHigh)
    THEN [acc EXCEPT !.tbl = InsertMarker(acc.tbl, op.external_id, NewHigh, now),
                     !.mails = Append(acc.mails, <<op.external_id, NewHigh>>)]
    ELSE acc

\* (variant: the bucket tier without the existence check before the insert)
BucketStep_NoExistenceCheck(acc, op, now) ==
    IF op.profit >= MIN_PROFIT_GBP /\ RoiGE(op, MIN_ROI)
    THEN [acc EXCEPT !.tbl = InsertMarker(acc.tbl, op.external_id, BucketMarker(RoiBucket(op)), now),
                     !.mails = Append(acc.mails, <<op.external_id, BucketMarker(RoiBucket(op))>>)]
    ELSE acc

\* the bucket milestone tier
BucketStep(acc, op, now) ==
    IF op.profit >= MIN_PROFIT_GBP /\ RoiGE(op, MIN_ROI)
       /\ ~MarkerExists(acc.tbl, op.external_id, BucketMarker(RoiBucket(op)))
    THEN [acc EXCEPT !.tbl = InsertMarker(acc.tbl, op.external_id, BucketMarker(RoiBucket(op)), now),
                     !.mails = Append(acc.mails, <<op.external_id, BucketMarker(RoiBucket(op))>>)]
    ELSE acc

\* (variant: the siren allowed whatever the age of the previous one)
SirenAllowed_NoCooldown(tbl, op, now) ==
    LET last_siren == MarkerLastCreatedAt(tbl, op.external_id, Siren)
    IN last_siren = Null \/ now - last_siren >= 0

\* the last-hour siren tier: allowed when no siren row exists or the row is
\* at least SIREN_COOLDOWN old
SirenAllowed(tbl, op, now) ==
    LET last_siren == MarkerLastCreatedAt(tbl, op.external_id, Siren)
    IN last_siren = Null \/ now - last_siren >= SIREN_COOLDOWN

\* (variant: the siren tier without the endgame window)
SirenStep_NoWindow(acc, op, now) ==
    IF op.end_time # Null
       /\ op.profit >= ENDGAME_MIN_PROFIT_GBP /\ RoiGE(op, ENDGAME_MIN_ROI)
       /\ SirenAllowed(acc.tbl, op, now)
    THEN [acc EXCEPT !.tbl = InsertMarker(acc.tbl, op.external_id, Siren, now),
                     !.mails = Append(acc.mails, <<op.external_id, Siren>>)]
    ELSE acc

SirenStep(acc, op, now) ==
    IF op.end_time # Null
       /\ op.end_time - now <= ENDGAME_WINDOW
       /\ op.profit >= ENDGAME_MIN_PROFIT_GBP /\ RoiGE(op, ENDGAME_MIN_ROI)
       /\ SirenAllowed(acc.tbl, op, now)
    THEN [acc EXCEPT !.tbl = InsertMarker(acc.tbl, op.external_id, Siren, now),
                     !.mails = Append(acc.mails, <<op.external_id, Siren>>)]
    ELSE acc

\* Does the tier's database statement run for op?  (an injected database
\* error raises only at a statement that is executed)
TierRuns(stage, op, now) ==
    CASE stage = "new_high" -> op.profit >= NEW_HIGH_PROFIT_GBP /\ RoiGE(op, NEW_HIGH_ROI)
      [] stage = "bucket" -> op.profit >= MIN_PROFIT_GBP /\ RoiGE(op, MIN_ROI)
      [] stage = "siren" -> /\ op.end_time # Null
                            /\ op.end_time - now <= ENDGAME_WINDOW
                            /\ op.profit >= ENDGAME_MIN_PROFIT_GBP /\ RoiGE(op, ENDGAME_MIN_ROI)
      [] OTHER -> FALSE

NoFault == [item |-> 0, stage |-> "none"]
FaultStages == {"new_high", "bucket", "siren", "commit"}

Raises(fault, i, stage, op, now) ==
    fault.item = i /\ fault.stage = stage /\ TierRuns(stage, op, now)

\* one iteration of the loop of _process_roi_alerts, from the siren tier on
FromSiren(a2, op, i, now, fault) ==
    IF Raises(fault, i, "siren", op, now) THEN [a2 EXCEPT !.failed = TRUE]
    ELSE SirenStep(a2, op, now)

\* ... from the bucket tier on
FromBucket(a1, op, i, now, fault) ==
    IF Raises(fault, i, "bucket", op, now) THEN [a1 EXCEPT !.failed = TRUE]
    ELSE The({FromSiren(a2, op, i, now, fault) : a2 \in {BucketStep(a1, op, now)}})

\* ... from the expiry checks on, after the snapshot is recorded
FromExpiry(a0, op, i, now, fault) ==
    IF op.end_time # Null /\ op.end_time <= now THEN a0
    ELSE IF HumaniseExpired(op.end_time, now) THEN a0
    ELSE IF Raises(fault, i, "new_high", op, now) THEN [a0 EXCEPT !.failed = TRUE]
    ELSE The({FromBucket(a1, op, i, now, fault) : a1 \in {NewHighStep(a0, op, now)}})

\* one iteration of the loop of _process_roi_alerts
ProcessOne(acc, op, i, now, fault) ==
    The({FromExpiry(a0, op, i, now, fault) :
         a0 \in {[acc EXCEPT !.snaps[op.external_id] = @ + 1]}})

RECURSIVE RunLoop(_, _, _, _, _)
RunLoop(acc, opps, i, now, fault) ==
    IF i > Len(opps) \/ acc.failed THEN acc
    ELSE The({RunLoop(next_acc, opps, i + 1, now, fault) :
              next_acc \in {ProcessOne(acc, opps[i], i, now, fault)}})

CommitStep(acc, fault) ==
    IF ~acc.failed /\ fault.stage = "commit" THEN [acc EXCEPT !.failed = TRUE] ELSE acc

\* the body of _process_roi_alerts up to conn.commit()
RunProcessRoiAlerts(opps, now, fault) ==
    The({CommitStep(acc, fault) :
         acc \in {RunLoop([tbl |-> markers, snaps |-> snapshots,
                           mails |-> <<>>, failed |-> FALSE], opps, 1, now, fault)}})

\* (variant: the handler's statements are committed one by one)
EndTransaction_KeepsWrites(acc) == [tbl |-> acc.tbl, snaps |-> acc.snaps]

\* what the two tables hold when _process_roi_alerts returns: the tick's
\* writes after conn.commit(), the committed rows after conn.rollback()
EndTransaction(acc) ==
    IF acc.failed THEN [tbl |-> markers, snaps |-> snapshots]
    ELSE [tbl |-> acc.tbl, snaps |-> acc.snaps]

(***************************************************************************)
(* Bags of notifications and of evaluations.                               *)
(***************************************************************************)
EmptyBag == <<>>

Count(bag, k) == IF k \in DOMAIN bag THEN bag[k] ELSE 0

AddOne(bag, k, cap) ==
    IF k \in DOMAIN bag
    THEN [bag EXCEPT ![k] = IF @ < cap THEN @ + 1 ELSE @]
    ELSE bag @@ (k :> 1)

RECURSIVE AddAll(_, _, _, _)
AddAll(bag, ks, i, cap) ==
    IF i > Len(ks) THEN bag
    ELSE The({AddAll(b, ks, i + 1, cap) : b \in {AddOne(bag, ks[i], cap)}})

Range(s) == {s[i] : i \in 1..Len(s)}

(***************************************************************************)
(* The world the ROI tick runs in.                                         *)
(***************************************************************************)
ExternalIds == {"e1", "e2"}
Orders == {<<"e1", "e2">>, <<"e2", "e1">>}

KeyWB == <<"w", "_", "B">>
KeyWA == <<"w", "_", "A">>

\* prices the upstream retriever may report for a listing
Prices(e) == IF e = "e1" THEN {204000, 180000, 150000, 60000} ELSE {60000}
EndTimes(e) == IF e = "e1" THEN {11, 22, 130} ELSE {Null}
ClockSteps == {4, 6}

InitComps ==
    {[model_key |-> KeyWB, median_final_price |-> 300000, mean_final_price |-> 300000,
      samples |-> 3, computed_at |-> 0]}

InitListings ==
    /\ \E t1 \in EndTimes("e1"), t2 \in EndTimes("e2") :
          listings =
            ("e1" :> [model_key |-> KeyWB, price_current |-> 204000, end_time |-> t1,
                      status |-> "live"])
            @@ ("e2" :> [model_key |-> KeyWA, price_current |-> 60000, end_time |-> t2,
                         status |-> "live"])

InitRoi ==
    /\ markers = {}
    /\ snapshots = [e \in ExternalIds |-> 0]
    /\ notified = EmptyBag
    /\ evals = EmptyBag
    /\ prevSiren = [e \in ExternalIds |-> [t |-> Null, fired |-> FALSE, tick |-> 0]]
    /\ trail = [e \in ExternalIds |->
                   [rising |-> TRUE, visited |-> {}, roi_num |-> 0, roi_den |-> 0]]
    /\ ticks = 0
    /\ rollbacks = 0

NoAlertCall ==
    [kind |-> "none", external_id |-> "", score |-> 0, max_bid |-> 0,
     created_now |-> FALSE, alert_id |-> Null]

InitAlerts ==
    /\ alerts = {}
    /\ alertSeq = 1
    /\ alertCalls = [e \in ExternalIds |-> 0]
    /\ lastAlert = NoAlertCall

Recomputers == {"r1", "r2"}

NoRead == [during |-> FALSE, computed |-> FALSE, rows |-> {}, pre |-> {}]

InitRecompute ==
    /\ compsPc = "idle"
    /\ latestComps = LatestRows(comps)
    /\ compsRuns = 0
    /\ compsPrev = comps
    /\ compsFailed = {}
    /\ readerSaw = NoRead
    /\ rc = [r \in Recomputers |-> [pc |-> "idle", runs |-> 0, failed |-> FALSE]]
    /\ lastDecide = [n |-> 0, force |-> FALSE, last_run |-> Null, now |-> 0]
    /\ computeLog = <<>>

Workers == {"w1", "w2"}

IdleWorker == [pc |-> "idle", i |-> 0, t |-> 0, now |-> 0, opps |-> <<>>, pending |-> {}]

InitWorkers == wk = [w \in Workers |-> IdleWorker]

InitCalls == fn = [name |-> "none"]

NoHotTick ==
    [ran |-> FALSE, cap |-> 0, fetched |-> {}, upserted |-> {}, created |-> {}, sent |-> <<>>,
     aborted |-> FALSE]

NoTickLog == [tick |-> 0, order |-> <<>>, item |-> 0, kind |-> "none", mark |-> <<>>]

InitMail ==
    /\ alertState = Null
    /\ digests = <<>>
    /\ hotMails = [e \in ExternalIds |-> 0]
    /\ hotTick = NoHotTick
    /\ tickLog = NoTickLog

Init ==
    /\ clock = 0
    /\ InitListings
    /\ comps = InitComps
    /\ InitRoi
    /\ InitAlerts
    /\ InitRecompute
    /\ InitWorkers
    /\ InitMail
    /\ InitCalls

(***************************************************************************)
(* History kept for the claims: which tiers an evaluation qualified for.   *)
(***************************************************************************)
SeenCap == 2

Unexpired(op, now) ==
    op.end_time = Null \/ (op.end_time > now /\ ~HumaniseExpired(op.end_time, now))

QualifiedMarkers(op, now) ==
    IF ~Unexpired(op, now) THEN {}
    ELSE (IF op.profit >= 100000 /\ op.roi_num >= 3 * op.roi_den THEN {NewHigh} ELSE {})
         \cup (IF op.profit >= 50000 /\ 4 * op.roi_num >= op.roi_den
               THEN {BucketMarker((4 * op.roi_num) \div op.roi_den)} ELSE {})
         \cup (IF op.end_time # Null /\ op.end_time - now <= 120
                  /\ op.profit >= 50000 /\ 4 * op.roi_num >= op.roi_den
               THEN {Siren} ELSE {})

\* the <<external_id, marker>> pairs one opportunity qualifies for
PairsOf(op, now) ==
    LET has(m) == m \in QualifiedMarkers(op, now)
        b == BucketMarker((4 * op.roi_num) \div op.roi_den)
    IN (IF has(NewHigh) THEN <<(<<op.external_id, NewHigh>>)>> ELSE <<>>)
       \o (IF has(b) THEN <<(<<op.external_id, b>>)>> ELSE <<>>)
       \o (IF has(Siren) THEN <<(<<op.external_id, Siren>>)>> ELSE <<>>)

RECURSIVE QualifiedPairs(_, _, _)
QualifiedPairs(opps, i, now) ==
    IF i > Len(opps) THEN <<>>
    ELSE PairsOf(opps[i], now) \o QualifiedPairs(opps, i + 1, now)

NoteEvals(bag, opps, now) ==
    The({AddAll(bag, qs, 1, SeenCap) : qs \in {QualifiedPairs(opps, 1, now)}})

NotePrevSiren(opps, mails, now) ==
    [e \in ExternalIds |->
        IF \E i \in 1..Len(opps) : opps[i].external_id = e
                                   /\ Siren \in QualifiedMarkers(opps[i], now)
        THEN [t |-> now, fired |-> <<e, Siren>> \in Range(mails), tick |-> ticks + 1]
        ELSE prevSiren[e]]

\* the roi trajectory of each listing: whether roi (kept in pence over pence)
\* rose strictly from each unexpired evaluation to the next, and the buckets
\* floor(roi / 0.25) it was evaluated in with profit >= 50
NoteTrail(opps, now) ==
    [e \in ExternalIds |->
        IF \E i \in 1..Len(opps) : opps[i].external_id = e /\ Unexpired(opps[i], now)
        THEN LET op == CHOOSE o \in Range(opps) : o.external_id = e
                 old == trail[e]
             IN [rising |-> /\ old.rising
                            /\ (old.roi_den = 0
                                \/ (op.roi_num \div PennyMills) * old.roi_den > old.roi_num * (op.roi_den \div PennyMills)),
                 visited |-> old.visited \cup
                             (IF op.profit >= 50000
                              THEN {(4 * op.roi_num) \div op.roi_den} ELSE {}),
                 roi_num |-> op.roi_num \div PennyMills,
                 roi_den |-> op.roi_den \div PennyMills]
        ELSE trail[e]]

(***************************************************************************)
(* Actions.                                                                *)
(***************************************************************************)
\* time passes
ClockAdvance(d) ==
    /\ clock + d <= MaxClock
    /\ clock' = clock + d
    /\ UNCHANGED <<listings, comps>>
    /\ UNCHANGED <<roiVars, alertVars, recomputeVars, workerVars, callVars, mailVars>>

\* the upstream retriever reports a new current price
Reprice(e, p) ==
    /\ p # listings[e].price_current
    /\ listings' = [listings EXCEPT ![e].price_current = p]
    /\ UNCHANGED <<clock, comps>>
    /\ UNCHANGED <<roiVars, alertVars, recomputeVars, workerVars, callVars, mailVars>>

\* _process_roi_alerts over the opportunities of a tick, ending in conn.commit()
ProcessRoiAlerts(order) ==
    /\ ticks < MaxTicks
    /\ \E opps \in {BuildAllOppsForRoi(FetchActiveListings(order), 1, LatestCompsMap(comps))} :
       \E res \in {RunProcessRoiAlerts(opps, clock, NoFault)} :
          /\ markers' = res.tbl
          /\ snapshots' = res.snaps
          /\ notified' = AddAll(notified, res.mails, 1, MaxTicks + MaxRollbacks)
          /\ evals' = NoteEvals(evals, opps, clock)
          /\ prevSiren' = NotePrevSiren(opps, res.mails, clock)
          /\ trail' = NoteTrail(opps, clock)
    /\ ticks' = ticks + 1
    /\ UNCHANGED <<clock, listings, comps, rollbacks>>
    /\ UNCHANGED <<alertVars, recomputeVars, workerVars, callVars, mailVars>>

\* _process_roi_alerts when a database statement raises out of the loop:
\* conn.rollback() discards the tick's writes, the emails already sent stay sent
ProcessRoiAlertsRollback(order, fault) ==
    /\ ticks < MaxTicks
    /\ rollbacks < MaxRollbacks
    /\ rollbacks' = rollbacks + 1
    /\ \E opps \in {BuildAllOppsForRoi(FetchActiveListings(order), 1, LatestCompsMap(comps))} :
       \E res \in {RunProcessRoiAlerts(opps, clock, fault)} :
          /\ opps # <<>>
          /\ res.failed
          /\ markers' = EndTransaction(res).tbl
          /\ snapshots' = EndTransaction(res).snaps
          /\ notified' = AddAll(notified, res.mails, 1, MaxTicks + MaxRollbacks)
    /\ ticks' = ticks + 1
    /\ UNCHANGED <<evals, prevSiren, trail>>
    /\ UNCHANGED <<clock, listings, comps>>
    /\ UNCHANGED <<alertVars, recomputeVars, workerVars, callVars, mailVars>>

Faults == [item : 1..Cardinality(ExternalIds), stage : FaultStages]

Environment ==
    \/ \E d \in ClockSteps : ClockAdvance(d)
    \/ \E e \in ExternalIds : \E p \in Prices(e) : Reprice(e, p)

\* ROI ticks that run one at a time and commit
NextSerial ==
    \/ Environment
    \/ \E order \in Orders : ProcessRoiAlerts(order)

SpecSerial == Init /\ [][NextSerial]_vars

\* ROI ticks that run one at a time; a tick may fail and roll back
Next ==
    \/ Environment
    \/ \E order \in Orders : ProcessRoiAlerts(order)
    \/ \E order \in Orders : \E fault \in Faults : ProcessRoiAlertsRollback(order, fault)

Spec == Init /\ [][Next]_vars

\* the same ticks over listings whose price is set before the first tick
InitFixedPrices ==
    /\ clock = 0
    /\ \E t1 \in EndTimes("e1"), p1 \in Prices("e1") :
          listings =
            ("e1" :> [model_key |-> KeyWB, price_current |-> p1, end_time |-> t1,
                      status |-> "live"])
            @@ ("e2" :> [model_key |-> KeyWA, price_current |-> 60000, end_time |-> Null,
                         status |-> "live"])
    /\ comps = InitComps
    /\ InitRoi
    /\ InitAlerts
    /\ InitRecompute
    /\ InitWorkers
    /\ InitMail
    /\ InitCalls

NextRollback ==
    \/ \E d \in ClockSteps : ClockAdvance(d)
    \/ \E order \in Orders : ProcessRoiAlerts(order)
    \/ \E order \in Orders : \E fault \in Faults : ProcessRoiAlertsRollback(order, fault)

SpecRollback == InitFixedPrices /\ [][NextRollback]_vars

(***************************************************************************)
(* _record_roi_snapshot raises inside the loop.  The exception is caught   *)
(* and logged; what follows depends on where the INSERT failed.  When it   *)
(* failed before reaching the server ("client") the transaction is intact. *)
(* When the server rejected it ("server") the transaction is aborted:      *)
(* every later statement on the cursor raises, a later snapshot INSERT     *)
(* inside its try, a marker SELECT out of the loop into conn.rollback();   *)
(* a conn.commit() that is still reached ends the aborted transaction      *)
(* without keeping any of its writes.                                      *)
(***************************************************************************)
SnapshotFaults == {"client", "server"}

\* the loop when the snapshot INSERT of opps[j] raises
RunLoopSnapshotRaises(opps, now, j, kind) ==
    The({IF before.failed THEN before
         ELSE IF kind = "server" THEN [before EXCEPT !.failed = TRUE]
         ELSE The({RunLoop(at, opps, j + 1, now, NoFault) :
                   at \in {FromExpiry(before, opps[j], j, now, NoFault)}}) :
         before \in {RunLoop([tbl |-> markers, snaps |-> snapshots, mails |-> <<>>,
                              failed |-> FALSE],
                             SubSeq(opps, 1, j - 1), 1, now, NoFault)}})

\* _process_roi_alerts when _record_roi_snapshot raises for the j-th opportunity
ProcessRoiAlertsSnapshotRaises(order, j, kind) ==
    /\ ticks < MaxTicks
    /\ \E opps \in {BuildAllOppsForRoi(FetchActiveListings(order), 1, LatestCompsMap(comps))} :
          /\ j <= Len(opps)
          /\ \E res \in {RunLoopSnapshotRaises(opps, clock, j, kind)} :
                /\ markers' = EndTransaction(res).tbl
                /\ snapshots' = EndTransaction(res).snaps
                /\ notified' = AddAll(notified, res.mails, 1, MaxTicks + MaxRollbacks)
                /\ evals' = IF res.failed THEN evals ELSE NoteEvals(evals, opps, clock)
                /\ prevSiren' = IF res.failed THEN prevSiren
                                 ELSE NotePrevSiren(opps, res.mails, clock)
                /\ trail' = IF res.failed THEN trail ELSE NoteTrail(opps, clock)
          /\ tickLog' = [tick |-> ticks + 1, order |-> order, item |-> j, kind |-> kind,
                          mark |-> <<>>]
    /\ ticks' = ticks + 1
    /\ UNCHANGED <<clock, listings, comps, rollbacks>>
    /\ UNCHANGED <<alertState, digests, hotMails, hotTick>>
    /\ UNCHANGED <<alertVars, recomputeVars, workerVars, callVars>>

NextSnapshot ==
    \/ \E d \in ClockSteps : ClockAdvance(d)
    \/ \E order \in Orders : ProcessRoiAlerts(order)
    \/ \E order \in Orders, j \in 1..Cardinality(ExternalIds), kind \in SnapshotFaults :
          ProcessRoiAlertsSnapshotRaises(order, j, kind)

SpecSnapshot == InitFixedPrices /\ [][NextSnapshot]_vars

(***************************************************************************)
(* send_email raises inside _send_new_high_email or _send_bucket_email.    *)
(* Both helpers wrap the call in try/except and log a warning.             *)
(***************************************************************************)
SendStages == {"new_high", "bucket"}

\* did the tier call its _send_*_email helper?
Sent(before, after) == Len(after.mails) > Len(before.mails)

\* (variant: the exception of send_email leaves the helper)
SendEmail_Escapes(acc, raises) == IF raises THEN [acc EXCEPT !.failed = TRUE] ELSE acc

\* try: send_email(...) except Exception: logger.warning(...)
SendEmail(acc, raises) == acc

\* the iteration of opps[j] after its snapshot, send_email raising in the
\* helper of the given tier
ItemSendRaises(a0, op, now, stage) ==
    IF op.end_time # Null /\ op.end_time <= now THEN a0
    ELSE IF HumaniseExpired(op.end_time, now) THEN a0
    ELSE The({The({IF b1.failed THEN b1
                   ELSE The({The({IF b2.failed THEN b2 ELSE SirenStep(b2, op, now) :
                                  b2 \in {SendEmail(a2, stage = "bucket" /\ Sent(b1, a2))}}) :
                             a2 \in {BucketStep(b1, op, now)}}) :
                   b1 \in {SendEmail(a1, stage = "new_high" /\ Sent(a0, a1))}}) :
              a1 \in {NewHighStep(a0, op, now)}})

\* the loop when send_email raises for opps[j] in the given tier
RunLoopSendRaises(opps, now, j, stage) ==
    The({The({RunLoop(at, opps, j + 1, now, NoFault) :
              at \in {ItemSendRaises([before EXCEPT !.snaps[opps[j].external_id] = @ + 1],
                                     opps[j], now, stage)}}) :
         before \in {RunLoop([tbl |-> markers, snaps |-> snapshots, mails |-> <<>>,
                              failed |-> FALSE],
                             SubSeq(opps, 1, j - 1), 1, now, NoFault)}})

\* the milestone whose helper is called for opps[j] in the given tier, <<>>
\* when the tier sends nothing for it
SendRaisedFor(opps, now, j, stage) ==
    The({IF (opps[j].end_time # Null /\ opps[j].end_time <= now)
            \/ HumaniseExpired(opps[j].end_time, now) THEN <<>>
         ELSE The({IF stage = "new_high"
                   THEN (IF Sent(before, a1) THEN <<opps[j].external_id, NewHigh>> ELSE <<>>)
                   ELSE (IF Sent(a1, BucketStep(a1, opps[j], now))
                         THEN <<opps[j].external_id, BucketMarker(RoiBucket(opps[j]))>>
                         ELSE <<>>) :
                   a1 \in {NewHighStep(before, opps[j], now)}}) :
         before \in {RunLoop([tbl |-> markers, snaps |-> snapshots, mails |-> <<>>,
                              failed |-> FALSE],
                             SubSeq(opps, 1, j - 1), 1, now, NoFault)}})

\* _process_roi_alerts when send_email raises for the j-th opportunity
ProcessRoiAlertsSendRaises(order, j, stage) ==
    /\ ticks < MaxTicks
    /\ \E opps \in {BuildAllOppsForRoi(FetchActiveListings(order), 1, LatestCompsMap(comps))} :
          /\ j <= Len(opps)
          /\ \E mark \in {SendRaisedFor(opps, clock, j, stage)} :
                /\ mark # <<>>
                /\ tickLog' = [tick |-> ticks + 1, order |-> order, item |-> j,
                               kind |-> stage, mark |-> mark]
          /\ \E res \in {RunLoopSendRaises(opps, clock, j, stage)} :
                /\ markers' = EndTransaction(res).tbl
                /\ snapshots' = EndTransaction(res).snaps
                /\ notified' = AddAll(notified, res.mails, 1, MaxTicks + MaxRollbacks)
                /\ evals' = IF res.failed THEN evals ELSE NoteEvals(evals, opps, clock)
                /\ prevSiren' = IF res.failed THEN prevSiren
                                 ELSE NotePrevSiren(opps, res.mails, clock)
                /\ trail' = IF res.failed THEN trail ELSE NoteTrail(opps, clock)
    /\ ticks' = ticks + 1
    /\ UNCHANGED <<clock, listings, comps, rollbacks>>
    /\ UNCHANGED <<alertState, digests, hotMails, hotTick>>
    /\ UNCHANGED <<alertVars, recomputeVars, workerVars, callVars>>

NextSendRaises ==
    \/ \E d \in ClockSteps : ClockAdvance(d)
    \/ \E order \in Orders : ProcessRoiAlerts(order)
    \/ \E order \in Orders, j \in 1..Cardinality(ExternalIds), stage \in SendStages :
          ProcessRoiAlertsSendRaises(order, j, stage)

SpecSendRaises == InitFixedPrices /\ [][NextSendRaises]_vars

(***************************************************************************)
(* Claims about the alert marker engine.                                   *)
(***************************************************************************)
MarkerRows(e, m) == {r \in markers : r.external_id = e /\ r.marker = m}

BucketOf(num, den) == IF den = 0 THEN 0 ELSE (4 * num) \div den

MaxOf(S) == CHOOSE x \in S : \A y \in S : y <= x

\* C1: over ROI ticks that run one at a time and commit, the new_high marker
\* of a listing is inserted and its notification handed to the mailer in the
\* first tick in which the listing is unexpired with profit >= 100 and
\* roi >= 3.0, and in no later tick: after every tick there is one row and
\* one notification if some tick so far met the thresholds, none otherwise.
C1_NewHighFirstTickOnly ==
    \A e \in ExternalIds :
        LET due == IF Count(evals, <<e, NewHigh>>) >= 1 THEN 1 ELSE 0
        IN /\ Count(notified, <<e, NewHigh>>) = due
           /\ Cardinality(MarkerRows(e, NewHigh)) = due

\* a second tick met the new_high thresholds and did not fire again
C1_Witness ==
    /\ Count(evals, <<"e1", NewHigh>>) >= 2
    /\ Count(notified, <<"e1", NewHigh>>) = 1

\* C2 as stated: for a listing whose roi rose strictly across the ticks and
\* was evaluated in each of the buckets 0..m, each of bucket_0..bucket_m
\* exists as one row and was notified once.
C2_BucketsZeroToM ==
    \A e \in ExternalIds :
        LET tr == trail[e]
        IN (tr.rising /\ tr.visited # {} /\ tr.visited = 0..MaxOf(tr.visited))
           => \A n \in tr.visited :
                 /\ Cardinality(MarkerRows(e, BucketMarker(n))) = 1
                 /\ Count(notified, <<e, BucketMarker(n)>>) = 1

\* C2 (amended): for a listing whose roi rose strictly across the committed
\* ticks, every bucket n >= 1 it was evaluated in (unexpired, profit >= 50)
\* has its marker bucket_n as exactly one row, notified exactly once,
\* whatever the number of ticks; bucket_0 is never created, because the
\* bucket tier requires roi >= 0.25.
C2_BucketsFromOne ==
    \A e \in ExternalIds :
        LET tr == trail[e]
        IN /\ tr.rising =>
                \A n \in tr.visited :
                    n >= 1 => /\ Cardinality(MarkerRows(e, BucketMarker(n))) = 1
                              /\ Count(notified, <<e, BucketMarker(n)>>) = 1
           /\ MarkerRows(e, BucketMarker(0)) = {}
           /\ Count(notified, <<e, BucketMarker(0)>>) = 0

\* the roi of e1 rose strictly through the buckets 0, 1 and 2
C2_Witness ==
    /\ trail["e1"].rising
    /\ trail["e1"].visited = {0, 1, 2}
    /\ ticks = 3

\* C3: over committed ticks that run one at a time, whatever the trajectory
\* of the roi, a bucket_n notification is sent at most once per
\* (external_id, n).
C3_BucketNotifiedAtMostOnce ==
    \A k \in DOMAIN notified : k[2].kind = "bucket" => notified[k] <= 1

\* e1 was evaluated in bucket 1, then in bucket 2, then in bucket 1 again
C3_Witness ==
    /\ Count(evals, <<"e1", BucketMarker(1)>>) = 2
    /\ Count(notified, <<"e1", BucketMarker(1)>>) = 1
    /\ BucketOf(trail["e1"].roi_num, trail["e1"].roi_den) = 1
    /\ \E r1 \in MarkerRows("e1", BucketMarker(1)) :
       \E r2 \in MarkerRows("e1", BucketMarker(2)) : r1.created_at < r2.created_at

\* C4: of two successive committed evaluations of a listing that is ending
\* soon and meets the siren thresholds in both, the first of which sent a
\* siren: the second sends a siren exactly when the two are at least the
\* cooldown apart (closer: one notification; further apart: two).
C4_SirenCooldown ==
    [][\A e \in ExternalIds :
          (/\ ticks' = ticks + 1
           /\ prevSiren'[e].tick = ticks'
           /\ prevSiren[e].tick > 0
           /\ prevSiren[e].fired)
          => (prevSiren'[e].fired <=> clock - prevSiren[e].t >= SIREN_COOLDOWN)]_vars

\* two sirens were sent a cooldown apart and a third evaluation, closer than
\* the cooldown to the second, was suppressed
C4_Witness ==
    /\ Count(notified, <<"e1", Siren>>) = 2
    /\ prevSiren["e1"].tick = 3
    /\ ~prevSiren["e1"].fired

\* C5: over ticks that run one at a time, some of which are rolled back after
\* notifications were sent, a one-time milestone (new_high, bucket_n) is
\* notified at most once per (external_id, marker).
C5_MilestoneNotifiedAtMostOnce ==
    \A k \in DOMAIN notified : k[2].kind \in {"new_high", "bucket"} => notified[k] <= 1

(***************************************************************************)
(* The alerts table and record_alert (roi and hot radar).                  *)
(***************************************************************************)
AlertRowsOf(tbl, e) == {r \in tbl : r.external_id = e}

\* INSERT ... ON CONFLICT (external_id) DO UPDATE that replaces the whole row
UpsertAlert_ReplacesRow(tbl, seq, e, score, max_bid, now) ==
    [tbl |-> (tbl \ AlertRowsOf(tbl, e))
               \cup {[id |-> seq, external_id |-> e, score |-> score, max_bid |-> max_bid,
                      created_at |-> now, updated_at |-> now, sent_at |-> Null]},
     inserted |-> AlertRowsOf(tbl, e) = {},
     id |-> seq]

\* INSERT INTO alerts ... ON CONFLICT (external_id) DO UPDATE ...
\* RETURNING id, (xmax = 0) AS inserted
UpsertAlert(tbl, seq, e, score, max_bid, now) ==
    IF AlertRowsOf(tbl, e) = {}
    THEN [tbl |-> tbl \cup {[id |-> seq, external_id |-> e, score |-> score,
                             max_bid |-> max_bid, created_at |-> now, updated_at |-> now,
                             sent_at |-> Null]},
          inserted |-> TRUE,
          id |-> seq]
    ELSE [tbl |-> (tbl \ AlertRowsOf(tbl, e))
                    \cup {[r EXCEPT !.score = score, !.max_bid = max_bid, !.updated_at = now] :
                          r \in AlertRowsOf(tbl, e)},
          inserted |-> FALSE,
          id |-> (CHOOSE r \in AlertRowsOf(tbl, e) : TRUE).id]

\* the arguments record_alert is called with: (score, max_bid) in mills
AlertArgs == {<<194000, 254000>>, <<50000, 110000>>}

\* record_alert returns (created_now, alert_id) after its commit
RecordAlertReturns(e, score, max_bid) ==
    /\ alertSeq <= MaxAlertCalls
    /\ \E res \in {UpsertAlert(alerts, alertSeq, e, score, max_bid, clock)} :
          /\ alerts' = res.tbl
          /\ lastAlert' = [kind |-> "returned", external_id |-> e, score |-> score,
                           max_bid |-> max_bid, created_now |-> res.inserted,
                           alert_id |-> res.id]
    /\ alertSeq' = alertSeq + 1
    /\ alertCalls' = [alertCalls EXCEPT ![e] = @ + 1]

\* record_alert of the roi pipeline: execute, conn.commit()
RoiRecordAlert(e, score, max_bid) ==
    /\ RecordAlertReturns(e, score, max_bid)
    /\ UNCHANGED <<clock, listings, comps>>
    /\ UNCHANGED <<roiVars, recomputeVars, workerVars, callVars, mailVars>>

\* record_alert of the hot radar: execute inside "with conn:"
HotRecordAlert(e, score, max_bid) ==
    /\ RecordAlertReturns(e, score, max_bid)
    /\ UNCHANGED <<clock, listings, comps>>
    /\ UNCHANGED <<roiVars, recomputeVars, workerVars, callVars, mailVars>>

\* record_alert when the statement or the commit raises: the transaction is
\* rolled back and the exception leaves the function
RecordAlertRaises(e, score, max_bid) ==
    /\ lastAlert' = [kind |-> "raised", external_id |-> e, score |-> score,
                     max_bid |-> max_bid, created_now |-> FALSE, alert_id |-> Null]
    /\ UNCHANGED <<alerts, alertSeq, alertCalls>>
    /\ UNCHANGED <<clock, listings, comps>>
    /\ UNCHANGED <<roiVars, recomputeVars, workerVars, callVars, mailVars>>

\* mark_alert_emailed(alert_id)
MarkAlertEmailed(alert_id) ==
    /\ \E r \in alerts : r.id = alert_id /\ r.sent_at # clock
    /\ alerts' = {IF r.id = alert_id THEN [r EXCEPT !.sent_at = clock] ELSE r : r \in alerts}
    /\ UNCHANGED <<alertSeq, alertCalls, lastAlert>>
    /\ UNCHANGED <<clock, listings, comps>>
    /\ UNCHANGED <<roiVars, recomputeVars, workerVars, callVars, mailVars>>

NextAlert ==
    \/ \E d \in ClockSteps : ClockAdvance(d)
    \/ \E e \in ExternalIds : \E a \in AlertArgs : RoiRecordAlert(e, a[1], a[2])
    \/ \E e \in ExternalIds : \E a \in AlertArgs : HotRecordAlert(e, a[1], a[2])
    \/ \E e \in ExternalIds : \E a \in AlertArgs : RecordAlertRaises(e, a[1], a[2])
    \/ \E id \in 1..MaxAlertCalls : MarkAlertEmailed(id)

SpecAlert == Init /\ [][NextAlert]_vars

(***************************************************************************)
(* The digest of the ROI tick.                                             *)
(***************************************************************************)
EMAIL_COOLDOWN == 60
MAX_EMAIL_ITEMS == 20
PER_SOURCE == <<>>

MaxDigestTicks == 2
MaxDigestClock == 120
DigestClockSteps == {20, 40}
DigestEndTimes(e) == IF e = "e1" THEN {0 - 10, 200} ELSE {Null, 0 - 10}
SendOutcomes == {"delivered", "send_raises", "mark_raises"}

\* _maybe_record_alert(op); record_alert raises for the listings in raising
MaybeRecordAlert(acc, op, raising, now) ==
    IF op.external_id \in raising
    THEN [acc EXCEPT !.last = [kind |-> "raised", external_id |-> op.external_id,
                               score |-> op.profit,
                               max_bid |-> Money(op.comps_median - op.fees - op.outbound_ship, 1),
                               created_now |-> FALSE, alert_id |-> Null]]
    ELSE The({[tbl |-> res.tbl,
               seq |-> acc.seq + 1,
               newly_created |-> IF res.inserted THEN Append(acc.newly_created, op)
                                 ELSE acc.newly_created,
               calls |-> [acc.calls EXCEPT ![op.external_id] = @ + 1],
               last |-> [kind |-> "returned", external_id |-> op.external_id,
                         score |-> op.profit,
                         max_bid |-> Money(op.comps_median - op.fees - op.outbound_ship, 1),
                         created_now |-> res.inserted, alert_id |-> res.id]] :
              res \in {UpsertAlert(acc.tbl, acc.seq, op.external_id, op.profit,
                                   Money(op.comps_median - op.fees - op.outbound_ship, 1),
                                   now)}})

\* the loop over opps of _node_record_alerts_and_email
RECURSIVE RecordAlerts(_, _, _, _, _)
RecordAlerts(acc, opps, i, raising, now) ==
    IF i > Len(opps) THEN acc
    ELSE The({RecordAlerts(next_acc, opps, i + 1, raising, now) :
              next_acc \in {MaybeRecordAlert(acc, opps[i], raising, now)}})

\* (variant: every newly created opportunity stays a candidate)
PastEndTime_NoFilter(newly_created, now) ==
    SelectSeq(newly_created, LAMBDA op : op.end_time = Null \/ op.end_time # Null)

\* the filter before the email: the newly created opportunities whose
\* end_time is set and already past
PastEndTime(newly_created, now) ==
    SelectSeq(newly_created, LAMBDA op : op.end_time # Null /\ op.end_time < now)

\* last_sent is None or since >= EMAIL_COOLDOWN
CooldownElapsed(last_sent, now) == last_sent = Null \/ now - last_sent >= EMAIL_COOLDOWN

\* the external_ids listed in the email: new_ops[:MAX_EMAIL_ITEMS]
DigestItems(new_ops) ==
    {new_ops[i].external_id :
        i \in 1..(IF Len(new_ops) < MAX_EMAIL_ITEMS THEN Len(new_ops) ELSE MAX_EMAIL_ITEMS)}

InitDigest ==
    /\ clock = 0
    /\ \E t1 \in DigestEndTimes("e1"), t2 \in DigestEndTimes("e2") :
          listings =
            ("e1" :> [model_key |-> KeyWB, price_current |-> 100000, end_time |-> t1,
                      status |-> "live", source |-> ""])
            @@ ("e2" :> [model_key |-> KeyWA, price_current |-> 60000, end_time |-> t2,
                         status |-> "scheduled", source |-> ""])
    /\ comps = InitComps
    /\ InitRoi
    /\ InitAlerts
    /\ InitRecompute
    /\ InitWorkers
    /\ InitMail
    /\ InitCalls

DigestClockAdvance(d) ==
    /\ clock + d <= MaxDigestClock
    /\ clock' = clock + d
    /\ UNCHANGED <<listings, comps>>
    /\ UNCHANGED <<roiVars, alertVars, recomputeVars, workerVars, callVars, mailVars>>

\* the retriever sees a scheduled listing go live
ListingGoesLive(e) ==
    /\ listings[e].status = "scheduled"
    /\ listings' = [listings EXCEPT ![e].status = "live"]
    /\ UNCHANGED <<clock, comps>>
    /\ UNCHANGED <<roiVars, alertVars, recomputeVars, workerVars, callVars, mailVars>>

\* _node_record_alerts_and_email over the shortlist of a tick: record_alert for
\* every opportunity, then _send_email_digest when the cooldown allows it
\* (send_email, then set_alert_last_sent; either may raise and is logged)
RecordAlertsAndEmail(order, raising, outcome) ==
    /\ ticks < MaxDigestTicks
    /\ ticks' = ticks + 1
    /\ \E opps \in {Shortlist(FetchActiveListings(order), LatestCompsMap(comps), PER_SOURCE)} :
       \E acc \in {RecordAlerts([tbl |-> alerts, seq |-> alertSeq, newly_created |-> <<>>,
                                 calls |-> alertCalls, last |-> lastAlert],
                                opps, 1, raising, clock)} :
       \E new_ops \in {PastEndTime(acc.newly_created, clock)} :
          /\ raising \subseteq {opps[i].external_id : i \in 1..Len(opps)}
          /\ alerts' = acc.tbl
          /\ alertSeq' = acc.seq
          /\ alertCalls' = acc.calls
          /\ lastAlert' = acc.last
          /\ IF new_ops # <<>> /\ CooldownElapsed(alertState, clock)
             THEN /\ digests' = IF outcome = "send_raises" THEN digests
                                ELSE Append(digests, [t |-> clock, items |-> DigestItems(new_ops)])
                  /\ alertState' = IF outcome = "delivered" THEN clock ELSE alertState
             ELSE /\ outcome = "delivered"
                  /\ UNCHANGED <<digests, alertState>>
    /\ UNCHANGED <<markers, snapshots, notified, evals, prevSiren, trail, rollbacks>>
    /\ UNCHANGED <<hotMails, hotTick, tickLog>>
    /\ UNCHANGED <<clock, listings, comps>>
    /\ UNCHANGED <<recomputeVars, workerVars, callVars>>

NextDigest ==
    \/ \E d \in DigestClockSteps : DigestClockAdvance(d)
    \/ \E e \in ExternalIds : ListingGoesLive(e)
    \/ \E order \in Orders, raising \in SUBSET ExternalIds, outcome \in SendOutcomes :
          RecordAlertsAndEmail(order, raising, outcome)

SpecDigest == InitDigest /\ [][NextDigest]_vars

(***************************************************************************)
(* Hot radar: the score.                                                   *)
(***************************************************************************)
\* a score as an exact fraction
Fraction(n, d) == [num |-> n, den |-> d]

\* the urgency term in tenths; time_left_s is in seconds
UrgencyTenths(time_left_s) ==
    IF time_left_s = Null THEN 0
    ELSE IF time_left_s <= 3600 THEN 10
    ELSE IF time_left_s <= 4 * 3600 THEN 6
    ELSE IF time_left_s <= 24 * 3600 THEN 2
    ELSE 0

\* snipe_score(listing, comp); comp is <<>> for None, else <<row>>.  With
\* median m > 0 the score is
\*   (120 * min(margin, m) + 6 * urgency_tenths * m - 5 * min(bids, 20) * m) / (200 * m)
\* clamped to [0, 1]
SnipeScore(listing, comp) ==
    IF listing.price_current = Null \/ comp = <<>> THEN Fraction(0, 1)
    ELSE IF comp[1].median_final_price - listing.price_current <= 0 THEN Fraction(0, 1)
    ELSE The({The({Fraction(IF raw < 0 THEN 0 ELSE IF raw > 200 * m THEN 200 * m ELSE raw,
                            200 * m) :
                   raw \in {120 * (IF m - listing.price_current < m
                                    THEN m - listing.price_current ELSE m)
                             + 6 * UrgencyTenths(listing.time_left_s) * m
                             - 5 * (IF listing.bids_count = Null THEN 0
                                    ELSE IF listing.bids_count < 20 THEN listing.bids_count
                                    ELSE 20) * m}}) :
              m \in {comp[1].median_final_price}})

SnipePrices == {Null, 0, 20000, 50000, 100000, 150000}
SnipeMedians == {60000, 100000}
SnipeTimes == {Null, 0 - 5, 0, 3600, 3601, 14400, 14401, 86400, 86401}
SnipeBids == {Null, 0, 5, 20, 30}

InitSnipe ==
    /\ clock = 0
    /\ InitListings
    /\ comps = InitComps
    /\ InitRoi
    /\ InitAlerts
    /\ InitRecompute
    /\ InitWorkers
    /\ InitMail
    /\ fn \in {[name |-> "snipe_score_args",
                 listing |-> [price_current |-> p, bids_count |-> b, time_left_s |-> t],
                 comp |-> <<[median_final_price |-> m, samples |-> 3]>>] :
                 p \in SnipePrices, b \in SnipeBids, t \in SnipeTimes, m \in SnipeMedians}

SnipeScoreCall ==
    /\ fn.name = "snipe_score_args"
    /\ fn' = [name |-> "snipe_score", listing |-> fn.listing, comp |-> fn.comp,
              out |-> SnipeScore(fn.listing, fn.comp)]
    /\ UNCHANGED <<clock, listings, comps>>
    /\ UNCHANGED <<roiVars, alertVars, recomputeVars, workerVars, mailVars>>

SpecSnipe == InitSnipe /\ [][SnipeScoreCall]_vars

(***************************************************************************)
(* Claims about the alerts table.                                          *)
(***************************************************************************)
\* a call of record_alert for e returned in this step
AlertCallReturned(e) == alertCalls'[e] = alertCalls[e] + 1

\* what C6 says of a call for e that returned
AlertCallContract(e) ==
    /\ lastAlert'.external_id = e
    /\ lastAlert'.created_now = (alertCalls[e] = 0)
    /\ alertCalls[e] = 0 => AlertRowsOf(alerts, e) = {}
    /\ Cardinality(AlertRowsOf(alerts', e)) = 1
    /\ \A a \in AlertRowsOf(alerts', e) :
          /\ a.id = lastAlert'.alert_id
          /\ a.score = lastAlert'.score
          /\ a.max_bid = lastAlert'.max_bid
          /\ a.updated_at = clock
          /\ alertCalls[e] > 0 =>
                \E b \in AlertRowsOf(alerts, e) :
                    /\ a.id = b.id
                    /\ a.created_at = b.created_at
                    /\ a.sent_at = b.sent_at
    /\ \A r \in alerts : r.external_id # e => r \in alerts'

\* C6: the first call of record_alert for an external_id that returns inserts a
\* row and returns created_now = true; every later call returns created_now =
\* false, overwrites score, max_bid and updated_at and leaves created_at and
\* sent_at as they were; the alerts table never holds two rows for one
\* external_id.
C6_RecordAlertUpsert ==
    /\ [](\A r1, r2 \in alerts : r1.external_id = r2.external_id => r1 = r2)
    /\ [][\A e \in ExternalIds : AlertCallReturned(e) => AlertCallContract(e)]_vars

\* C6 witness: a later call for an external_id whose row was already emailed has
\* returned created_now = false with a different score at a later time
C6_Witness ==
    /\ lastAlert.kind = "returned"
    /\ ~lastAlert.created_now
    /\ \E r \in alerts :
          /\ r.external_id = lastAlert.external_id
          /\ alertCalls[r.external_id] >= 2
          /\ r.score = lastAlert.score
          /\ r.score = 50000
          /\ r.sent_at # Null
          /\ r.created_at < r.sent_at
          /\ r.sent_at < r.updated_at

(***************************************************************************)
(* The comps recompute (pipelines/listing/comps).                          *)
(***************************************************************************)
COMPS_WINDOW_DAYS == 30
COMPS_MIN_INTERVAL_HOURS == 6
COMPS_KEEP_PER_KEY == 60
HalfMinutesPerHour == 120
HalfMinutesPerDay == 2880

\* the listings the recompute runs over, in a fixed order
CompIds == <<"s1", "s2", "s3">>

\* COALESCE(final_price, price_current)
RealizedPrice(li) == IF li.final_price # Null THEN li.final_price ELSE li.price_current

\* (variant: the window starts at now instead of days before it)
CompsEligible_WindowFromNow(li, now, days) ==
    /\ li.status \in {"sold", "ended"}
    /\ RealizedPrice(li) # Null
    /\ li.end_time # Null
    /\ li.end_time >= now
    /\ li.model_key # NullKey
    /\ Lower(li.model_key) # <<"u", "n", "k", "n", "o", "w", "n">>

\* the WHERE clause of _compute_daily_comps
CompsEligible(li, now, days) ==
    /\ li.status \in {"sold", "ended"}
    /\ RealizedPrice(li) # Null
    /\ li.end_time # Null
    /\ li.end_time >= now - days * HalfMinutesPerDay
    /\ li.model_key # NullKey
    /\ Lower(li.model_key) # <<"u", "n", "k", "n", "o", "w", "n">>

\* the listings of one GROUP BY model_key group
GroupIds(tbl, k, now, days) ==
    SelectSeq(CompIds, LAMBDA e : CompsEligible(tbl[e], now, days) /\ tbl[e].model_key = k)

\* the realized prices of the group, ascending
GroupPrices(tbl, k, now, days) ==
    SortSeq([i \in 1..Len(GroupIds(tbl, k, now, days)) |->
                RealizedPrice(tbl[GroupIds(tbl, k, now, days)[i]])],
            LAMBDA a, b : a < b)

\* PERCENTILE_CONT(0.5) WITHIN GROUP (ORDER BY ...) of an ascending sequence
PercentileContHalf(v) ==
    IF Len(v) % 2 = 1 THEN v[(Len(v) + 1) \div 2]
    ELSE (v[Len(v) \div 2] + v[Len(v) \div 2 + 1]) \div 2

RECURSIVE SumSeq(_, _)
SumSeq(v, i) == IF i > Len(v) THEN 0 ELSE v[i] + SumSeq(v, i + 1)

\* AVG(...)::numeric, kept to the mill
Avg(v) == RoundHalfUp(SumSeq(v, 1), Len(v))

\* the rows the INSERT ... SELECT ... GROUP BY model_key of _compute_daily_comps adds
ComputeDailyComps(tbl, now, days) ==
    {The({[model_key |-> k,
           median_final_price |-> PercentileContHalf(v),
           mean_final_price |-> Avg(v),
           samples |-> Len(v),
           computed_at |-> now] : v \in {GroupPrices(tbl, k, now, days)}}) :
       k \in {tbl[e].model_key : e \in {x \in DOMAIN tbl : CompsEligible(tbl[x], now, days)}}}

\* _prune_old_comps: the rows left when every (model_key, computed_at) ranked
\* beyond keep_per_key is deleted
PruneOldComps(tbl, keep_per_key) ==
    {r \in tbl :
       Cardinality({x \in tbl : x.model_key = r.model_key
                                /\ x.computed_at >= r.computed_at}) <= keep_per_key}

\* (variant: a comps table without a primary key)
InsertComps_NoPrimaryKey(tbl, rows) ==
    [ok |-> TRUE, tbl |-> tbl \cup rows]

\* INSERT INTO comps of a set of rows: comps has PRIMARY KEY (model_key), so
\* the statement fails as a whole when a row's model_key is already there
InsertComps(tbl, rows) ==
    IF \E r \in tbl : \E q \in rows : r.model_key = q.model_key
    THEN [ok |-> FALSE, tbl |-> tbl]
    ELSE [ok |-> TRUE, tbl |-> tbl \cup rows]

\* _get_last_run: MAX(computed_at), Null on an empty table
GetLastRun(tbl) ==
    IF tbl = {} THEN Null
    ELSE CHOOSE t \in {r.computed_at : r \in tbl} : \A r \in tbl : r.computed_at <= t

\* (variant: the minimum interval between runs is not looked at)
ShouldRun_IgnoresInterval(force, tbl, now) ==
    TRUE

\* should_run of _node_decide_should_run
ShouldRun(force, tbl, now) ==
    \/ force
    \/ GetLastRun(tbl) = Null
    \/ now - GetLastRun(tbl) >= COMPS_MIN_INTERVAL_HOURS * HalfMinutesPerHour

\* the sold and live listings the recompute finds
SalePrices == {250000, 310000}
CompsClockSteps == {360, 720}

InitCompsListings ==
    listings =
        ("s1" :> [model_key |-> KeyWB, price_current |-> 290000, final_price |-> 300000,
                  end_time |-> 360 - COMPS_WINDOW_DAYS * HalfMinutesPerDay,
                  status |-> "sold"])
        @@ ("s2" :> [model_key |-> KeyWB, price_current |-> 280000, final_price |-> Null,
                     end_time |-> 360, status |-> "live"])
        @@ ("s3" :> [model_key |-> KeyWA, price_current |-> 400000, final_price |-> Null,
                     end_time |-> 720, status |-> "live"])

\* a database in which comps has never been computed
InitCompsWorld ==
    /\ clock = 0
    /\ InitCompsListings
    /\ comps = {}
    /\ InitRoi
    /\ InitAlerts
    /\ InitRecompute
    /\ InitWorkers
    /\ InitMail
    /\ InitCalls

\* hours pass
HoursPass(d) ==
    /\ clock + d <= MaxCompsClock
    /\ clock' = clock + d
    /\ UNCHANGED <<listings, comps>>
    /\ UNCHANGED <<roiVars, alertVars, recomputeVars, workerVars, callVars, mailVars>>

\* the auction of e is over and it sold for p
ListingSells(e, p) ==
    /\ listings[e].status = "live"
    /\ listings[e].end_time <= clock
    /\ listings' = [listings EXCEPT ![e].status = "sold", ![e].final_price = p]
    /\ UNCHANGED <<clock, comps>>
    /\ UNCHANGED <<roiVars, alertVars, recomputeVars, workerVars, callVars, mailVars>>

\* the auction of e is over without a recorded final price
ListingEnds(e) ==
    /\ listings[e].status = "live"
    /\ listings[e].end_time <= clock
    /\ listings' = [listings EXCEPT ![e].status = "ended"]
    /\ UNCHANGED <<clock, comps>>
    /\ UNCHANGED <<roiVars, alertVars, recomputeVars, workerVars, callVars, mailVars>>

\* history: the run's force flag, the listings and the time its INSERT read, and
\* the table it left; the latest two are kept
NoteCompute(tbl) ==
    (IF computeLog = <<>> THEN <<>> ELSE <<computeLog[Len(computeLog)]>>)
    \o <<[force |-> lastDecide.force, listings |-> listings, now |-> clock,
          tbl |-> tbl]>>

\* _node_decide_should_run and _route_after_decide
DecideShouldRun(force) ==
    /\ compsPc = "idle"
    /\ compsRuns < MaxCompsRuns
    /\ lastDecide.n < MaxDecides
    /\ lastDecide' = [n |-> lastDecide.n + 1, force |-> force,
                      last_run |-> GetLastRun(comps), now |-> clock]
    /\ IF ShouldRun(force, comps, clock)
       THEN /\ compsPc' = "truncate"
            /\ compsRuns' = compsRuns + 1
            /\ compsPrev' = comps
            /\ compsFailed' = {}
       ELSE UNCHANGED <<compsPc, compsRuns, compsPrev, compsFailed>>
    /\ UNCHANGED <<latestComps, readerSaw, rc, computeLog>>
    /\ UNCHANGED <<clock, listings, comps>>
    /\ UNCHANGED <<roiVars, alertVars, workerVars, callVars, mailVars>>

\* _node_truncate: TRUNCATE TABLE comps, committed by "with connection"
TruncateComps ==
    /\ compsPc = "truncate"
    /\ comps' = {}
    /\ compsPc' = "compute"
    /\ UNCHANGED <<latestComps, compsRuns, compsPrev, compsFailed, readerSaw, rc, lastDecide, computeLog>>
    /\ UNCHANGED <<clock, listings>>
    /\ UNCHANGED <<roiVars, alertVars, workerVars, callVars, mailVars>>

\* _node_truncate raises: the transaction is rolled back, graph.invoke raises, run() logs
TruncateCompsRaises ==
    /\ compsPc = "truncate"
    /\ compsPc' = "idle"
    /\ compsFailed' = compsFailed \cup {"truncate"}
    /\ UNCHANGED <<latestComps, compsRuns, compsPrev, readerSaw, rc, lastDecide, computeLog>>
    /\ UNCHANGED <<clock, listings, comps>>
    /\ UNCHANGED <<roiVars, alertVars, workerVars, callVars, mailVars>>

\* _node_compute: the INSERT ... SELECT, committed by "with connection"
ComputeComps ==
    /\ compsPc = "compute"
    /\ \E ins \in {InsertComps(comps, ComputeDailyComps(listings, clock, COMPS_WINDOW_DAYS))} :
          /\ ins.ok
          /\ comps' = ins.tbl
          /\ computeLog' = NoteCompute(ins.tbl)
    /\ compsPc' = "prune"
    /\ UNCHANGED <<latestComps, compsRuns, compsPrev, compsFailed, readerSaw, rc, lastDecide>>
    /\ UNCHANGED <<clock, listings>>
    /\ UNCHANGED <<roiVars, alertVars, workerVars, callVars, mailVars>>

\* _node_compute raises: in the INSERT (rolled back) or, when committed, in the
\* row count that follows the commit; graph.invoke raises, run() logs
ComputeCompsRaises(committed) ==
    /\ compsPc = "compute"
    /\ \E ins \in {InsertComps(comps, ComputeDailyComps(listings, clock, COMPS_WINDOW_DAYS))} :
          IF committed
          THEN /\ ins.ok
               /\ comps' = ins.tbl
               /\ computeLog' = NoteCompute(ins.tbl)
          ELSE UNCHANGED <<comps, computeLog>>
    /\ compsPc' = "idle"
    /\ compsFailed' = compsFailed \cup {"compute"}
    /\ UNCHANGED <<latestComps, compsRuns, compsPrev, readerSaw, rc, lastDecide>>
    /\ UNCHANGED <<clock, listings>>
    /\ UNCHANGED <<roiVars, alertVars, workerVars, callVars, mailVars>>

\* _node_prune_best_effort; an exception of _prune_old_comps is logged and dropped
PruneComps(raises) ==
    /\ compsPc = "prune"
    /\ comps' = IF raises THEN comps ELSE PruneOldComps(comps, COMPS_KEEP_PER_KEY)
    /\ compsFailed' = IF raises THEN compsFailed \cup {"prune"} ELSE compsFailed
    /\ compsPc' = "refresh"
    /\ UNCHANGED <<latestComps, compsRuns, compsPrev, readerSaw, rc, lastDecide, computeLog>>
    /\ UNCHANGED <<clock, listings>>
    /\ UNCHANGED <<roiVars, alertVars, workerVars, callVars, mailVars>>

\* _node_refresh_matview_best_effort and _node_done; an exception of
\* refresh_latest_comps_matview is logged and dropped
RefreshMatview(raises) ==
    /\ compsPc = "refresh"
    /\ latestComps' = IF raises THEN latestComps ELSE LatestRows(comps)
    /\ compsFailed' = IF raises THEN compsFailed \cup {"refresh"} ELSE compsFailed
    /\ compsPc' = "idle"
    /\ UNCHANGED <<compsRuns, compsPrev, readerSaw, rc, lastDecide, computeLog>>
    /\ UNCHANGED <<clock, listings, comps>>
    /\ UNCHANGED <<roiVars, alertVars, workerVars, callVars, mailVars>>

\* latest_comps_map called by an ROI tick of another process
ReadLatestComps ==
    /\ readerSaw' = [during |-> compsPc # "idle",
                     computed |-> compsPc \in {"prune", "refresh"},
                     rows |-> LatestRows(comps),
                     pre |-> LatestRows(compsPrev)]
    /\ UNCHANGED <<compsPc, latestComps, compsRuns, compsPrev, compsFailed, rc, lastDecide, computeLog>>
    /\ UNCHANGED <<clock, listings, comps>>
    /\ UNCHANGED <<roiVars, alertVars, workerVars, callVars, mailVars>>

NextComps ==
    \/ \E d \in CompsClockSteps : HoursPass(d)
    \/ \E e \in DOMAIN listings : \E p \in SalePrices : ListingSells(e, p)
    \/ \E e \in DOMAIN listings : ListingEnds(e)
    \/ \E force \in BOOLEAN : DecideShouldRun(force)
    \/ TruncateComps
    \/ TruncateCompsRaises
    \/ ComputeComps
    \/ \E committed \in BOOLEAN : ComputeCompsRaises(committed)
    \/ \E raises \in BOOLEAN : PruneComps(raises)
    \/ \E raises \in BOOLEAN : RefreshMatview(raises)
    \/ ReadLatestComps

SpecComps == InitCompsWorld /\ [][NextComps]_vars

\* the runs of the comps graph alone, without the ROI side's reads
NextCompsRun ==
    \/ \E d \in CompsClockSteps : HoursPass(d)
    \/ \E e \in DOMAIN listings : \E p \in SalePrices : ListingSells(e, p)
    \/ \E e \in DOMAIN listings : ListingEnds(e)
    \/ \E force \in BOOLEAN : DecideShouldRun(force)
    \/ TruncateComps
    \/ TruncateCompsRaises
    \/ ComputeComps
    \/ \E committed \in BOOLEAN : ComputeCompsRaises(committed)
    \/ \E raises \in BOOLEAN : PruneComps(raises)
    \/ \E raises \in BOOLEAN : RefreshMatview(raises)

SpecCompsRun == InitCompsWorld /\ [][NextCompsRun]_vars

\* the model_key values the upstream classifier may have written
CompsKeyKinds ==
    {KeyWB, NullKey, <<>>, <<" ">>, <<"U", "N", "K", "N", "O", "W", "N">>,
     <<" ", "u", "n", "k", "n", "o", "w", "n">>}

\* the comps world with a listing of any model_key among the sold ones
InitCompsKeys ==
    /\ clock = 0
    /\ \E k \in CompsKeyKinds :
          listings =
            ("s1" :> [model_key |-> k, price_current |-> 290000, final_price |-> 300000,
                      end_time |-> 360 - COMPS_WINDOW_DAYS * HalfMinutesPerDay,
                      status |-> "sold"])
            @@ ("s2" :> [model_key |-> KeyWB, price_current |-> 280000, final_price |-> Null,
                         end_time |-> 360, status |-> "live"])
            @@ ("s3" :> [model_key |-> k, price_current |-> 400000, final_price |-> Null,
                         end_time |-> 720, status |-> "live"])
    /\ comps = {}
    /\ InitRoi
    /\ InitAlerts
    /\ InitRecompute
    /\ InitWorkers
    /\ InitMail
    /\ InitCalls

SpecCompsKeys == InitCompsKeys /\ [][NextCompsRun]_vars

(***************************************************************************)
(* Overlapping comps runs: separate processes, each running the graph of   *)
(* its own run(); every step commits its own transaction.                  *)
(***************************************************************************)
\* _node_decide_should_run of process r
RcDecide(r, force) ==
    /\ rc[r].pc = "idle"
    /\ rc[r].runs < MaxCompsRuns
    /\ ShouldRun(force, comps, clock)
    /\ rc' = [rc EXCEPT ![r] = [pc |-> "truncate", runs |-> @.runs + 1, failed |-> FALSE]]
    /\ UNCHANGED <<compsPc, latestComps, compsRuns, compsPrev, compsFailed, readerSaw, lastDecide, computeLog>>
    /\ UNCHANGED <<clock, listings, comps>>
    /\ UNCHANGED <<roiVars, alertVars, workerVars, callVars, mailVars>>

\* _node_truncate of process r
RcTruncate(r) ==
    /\ rc[r].pc = "truncate"
    /\ comps' = {}
    /\ rc' = [rc EXCEPT ![r].pc = "compute"]
    /\ UNCHANGED <<compsPc, latestComps, compsRuns, compsPrev, compsFailed, readerSaw, lastDecide, computeLog>>
    /\ UNCHANGED <<clock, listings>>
    /\ UNCHANGED <<roiVars, alertVars, workerVars, callVars, mailVars>>

\* _node_compute of process r: the INSERT commits, or it hits a model_key
\* another process has inserted since the truncate, is rolled back and ends the run
RcCompute(r) ==
    /\ rc[r].pc = "compute"
    /\ \E ins \in {InsertComps(comps, ComputeDailyComps(listings, clock, COMPS_WINDOW_DAYS))} :
          /\ comps' = ins.tbl
          /\ rc' = [rc EXCEPT ![r].pc = IF ins.ok THEN "prune" ELSE "idle",
                              ![r].failed = ~ins.ok]
    /\ UNCHANGED <<compsPc, latestComps, compsRuns, compsPrev, compsFailed, readerSaw, lastDecide, computeLog>>
    /\ UNCHANGED <<clock, listings>>
    /\ UNCHANGED <<roiVars, alertVars, workerVars, callVars, mailVars>>

\* _node_prune_best_effort of process r
RcPrune(r) ==
    /\ rc[r].pc = "prune"
    /\ comps' = PruneOldComps(comps, COMPS_KEEP_PER_KEY)
    /\ rc' = [rc EXCEPT ![r].pc = "refresh"]
    /\ UNCHANGED <<compsPc, latestComps, compsRuns, compsPrev, compsFailed, readerSaw, lastDecide, computeLog>>
    /\ UNCHANGED <<clock, listings>>
    /\ UNCHANGED <<roiVars, alertVars, workerVars, callVars, mailVars>>

\* _node_refresh_matview_best_effort and _node_done of process r
RcRefresh(r) ==
    /\ rc[r].pc = "refresh"
    /\ latestComps' = LatestRows(comps)
    /\ rc' = [rc EXCEPT ![r].pc = "idle"]
    /\ UNCHANGED <<compsPc, compsRuns, compsPrev, compsFailed, readerSaw, lastDecide, computeLog>>
    /\ UNCHANGED <<clock, listings, comps>>
    /\ UNCHANGED <<roiVars, alertVars, workerVars, callVars, mailVars>>

NextCompsOverlap ==
    \/ \E d \in CompsClockSteps : HoursPass(d)
    \/ \E e \in DOMAIN listings : \E p \in SalePrices : ListingSells(e, p)
    \/ \E e \in DOMAIN listings : ListingEnds(e)
    \/ \E r \in Recomputers : \E force \in BOOLEAN : RcDecide(r, force)
    \/ \E r \in Recomputers : RcTruncate(r)
    \/ \E r \in Recomputers : RcCompute(r)
    \/ \E r \in Recomputers : RcPrune(r)
    \/ \E r \in Recomputers : RcRefresh(r)

SpecCompsOverlap == InitCompsWorld /\ [][NextCompsOverlap]_vars

(***************************************************************************)
(* Calls of the valuation matcher on its own.                              *)
(***************************************************************************)
Grades == {"A", "B", "C", "D", "b"}

\* the model_key arguments: None, "", "w", "w_x", "w_A ", "_B" and "w_<grade>"
ResolveKeys ==
    {NullKey, <<>>, <<"w">>, <<"w", "_", "x">>, <<"w", "_", "A", " ">>, <<"_", "B">>}
    \cup {<<"w", "_", g>> : g \in Grades}

\* the model_keys that may have a comps row: "w", "_A" and "w_<grade>"
ResolveCompKeys == {<<"w">>, <<"_", "A">>} \cup {<<"w", "_", g>> : g \in Grades}

\* median_final_price of those rows: NULL, 0.00 or 100.00
ResolveMedians == {Null, 0, 100000}

\* what latest_comps_map may return
ResolveCompMaps ==
    {[k \in DOMAIN f |-> [model_key |-> k, median_final_price |-> f[k],
                          mean_final_price |-> f[k], samples |-> MinSamples,
                          computed_at |-> 0]] :
       f \in UNION {[K -> ResolveMedians] : K \in SUBSET ResolveCompKeys}}

\* the arguments of a call of _get_comp_with_grade_adjustment
InitResolve ==
    /\ clock = 0
    /\ InitListings
    /\ comps = InitComps
    /\ InitRoi
    /\ InitAlerts
    /\ InitRecompute
    /\ InitWorkers
    /\ InitMail
    /\ fn \in {[name |-> "resolve_args", model_key |-> k, cmap |-> c] :
                 k \in ResolveKeys, c \in ResolveCompMaps}

\* the call of _get_comp_with_grade_adjustment
Resolve ==
    /\ fn.name = "resolve_args"
    /\ fn' = [name |-> "resolve", model_key |-> fn.model_key, cmap |-> fn.cmap,
              out |-> GetCompWithGradeAdjustment(fn.model_key, fn.cmap)]
    /\ UNCHANGED <<clock, listings, comps>>
    /\ UNCHANGED <<roiVars, alertVars, recomputeVars, workerVars, mailVars>>

SpecResolve == InitResolve /\ [][Resolve]_vars

(***************************************************************************)
(* Calls of the profit / ROI estimator on its own.                         *)
(***************************************************************************)
\* ask prices 0.00, 50.00, 100.00, 123.45; medians 4.50, 120.00, 200.00 and
\* 100.00 * 1.00 / 0.85; inbound shipping 0.00 and 2.50
EstimateAsks == {0, 50000, 100000, 123450}
EstimateMedians == {<<4500, 1>>, <<120000, 1>>, <<200000, 1>>, <<10000000, 85>>}
EstimateFeeRates == {FEE_RATE, 10}
EstimateOutbound == {OUTBOUND_SHIP_DEFAULT_GBP, 0}
EstimateInbound == {INBOUND_SHIP_DEFAULT_GBP, 2500}

\* the arguments of a call of _estimate_profit
InitEstimate ==
    /\ clock = 0
    /\ InitListings
    /\ comps = InitComps
    /\ InitRoi
    /\ InitAlerts
    /\ InitRecompute
    /\ InitWorkers
    /\ InitMail
    /\ fn \in {[name |-> "estimate_args", ask_price |-> a, num |-> m[1], den |-> m[2],
                 fee_rate |-> f, outbound_ship |-> o, inbound_ship |-> i] :
                 a \in EstimateAsks, m \in EstimateMedians, f \in EstimateFeeRates,
                 o \in EstimateOutbound, i \in EstimateInbound}

\* the call of _estimate_profit
Estimate ==
    /\ fn.name = "estimate_args"
    /\ \E out \in EstimateProfitOutcomes(fn.ask_price, fn.num, fn.den, fn.fee_rate,
                                         fn.outbound_ship, fn.inbound_ship) :
          fn' = [fn EXCEPT !.name = "estimate"] @@ [out |-> out]
    /\ UNCHANGED <<clock, listings, comps>>
    /\ UNCHANGED <<roiVars, alertVars, recomputeVars, workerVars, mailVars>>

SpecEstimate == InitEstimate /\ [][Estimate]_vars

(***************************************************************************)
(* The tick with its roi_estimate / max_bid writes.                        *)
(***************************************************************************)
\* a NULL roi_estimate; a value is <<numerator, denominator>>
NoEstimate == <<>>

\* max_bid of the row _update_roi_estimates builds for op:
\* _money(op.comps_median * 0.8), engine.core.scoring.snipe not being importable
MaxBidOf(op) == Money(op.comps_median * 80, 100)

\* auction_listings after the executemany UPDATE of _update_roi_estimates
UpdateRoiEstimates(opps, tbl) ==
    [e \in DOMAIN tbl |->
        IF \E i \in 1..Len(opps) : opps[i].external_id = e
        THEN The({[tbl[e] EXCEPT !.roi_estimate = <<op.roi_num, op.roi_den>>,
                                 !.max_bid = MaxBidOf(op)] :
                  op \in {opps[(CHOOSE i \in 1..Len(opps) :
                                    (opps[i].external_id = e
                                     /\ \A j \in (i + 1)..Len(opps) :
                                           opps[j].external_id # e))]}})
        ELSE tbl[e]]

\* comps rows over 2 or over 3 samples
PersistSamples == {2, 3}

\* statuses of listing e2
PersistStatuses == {"live", "ended"}

InitPersist ==
    /\ clock = 0
    /\ \E t1 \in EndTimes("e1"), st \in PersistStatuses :
          listings =
            ("e1" :> [model_key |-> KeyWB, price_current |-> 204000, end_time |-> t1,
                      status |-> "live", roi_estimate |-> NoEstimate, max_bid |-> Null])
            @@ ("e2" :> [model_key |-> KeyWA, price_current |-> 60000, end_time |-> Null,
                         status |-> st, roi_estimate |-> NoEstimate, max_bid |-> Null])
    /\ \E n \in PersistSamples :
          comps = {[model_key |-> KeyWB, median_final_price |-> 300000,
                    mean_final_price |-> 300000, samples |-> n, computed_at |-> 0]}
    /\ InitRoi
    /\ InitAlerts
    /\ InitRecompute
    /\ InitWorkers
    /\ InitMail
    /\ InitCalls

\* one tick of the graph: load_listings, load_comps, compute_all_for_roi,
\* persist_roi_estimates (rolled back with a warning when the UPDATE raises)
\* and process_roi_alerts
RoiTick(order, update_raises) ==
    /\ ticks < MaxTicks
    /\ \E opps \in {BuildAllOppsForRoi(FetchActiveListings(order), 1, LatestCompsMap(comps))} :
          /\ update_raises => opps # <<>>
          /\ listings' = IF update_raises THEN listings
                         ELSE UpdateRoiEstimates(opps, listings)
          /\ \E res \in {RunProcessRoiAlerts(opps, clock, NoFault)} :
                /\ markers' = res.tbl
                /\ snapshots' = res.snaps
                /\ notified' = AddAll(notified, res.mails, 1, MaxTicks + MaxRollbacks)
                /\ evals' = NoteEvals(evals, opps, clock)
                /\ prevSiren' = NotePrevSiren(opps, res.mails, clock)
                /\ trail' = NoteTrail(opps, clock)
    /\ ticks' = ticks + 1
    /\ UNCHANGED <<clock, comps, rollbacks>>
    /\ UNCHANGED <<alertVars, recomputeVars, workerVars, callVars, mailVars>>

NextRoiTick ==
    \/ \E order \in Orders, update_raises \in BOOLEAN : RoiTick(order, update_raises)
    \/ \E e \in ExternalIds : \E p \in Prices(e) : Reprice(e, p)
    \/ \E d \in ClockSteps : ClockAdvance(d)

SpecRoiTick == InitPersist /\ [][NextRoiTick]_vars

(***************************************************************************)
(* Calls of get_top_roi_opportunities on its own.                          *)
(***************************************************************************)
ShortlistIds == {"l1", "l2", "l3"}
ShortlistOrders == {<<"l1", "l2", "l3">>, <<"l3", "l2", "l1">>}
ShortlistLimits == {0, 1, 2}

KeyXA == <<"x", "_", "A">>
KeyYA == <<"y", "_", "A">>
KeyZA == <<"z", "_", "A">>
KeyVA == <<"v", "_", "A">>

\* comps: w_B 200.00, x_A 120.00, z_A 300.00 and v_A 1000.00 over 3 samples,
\* y_A 300.00 over 2
ShortlistComps ==
    {[model_key |-> k[1], median_final_price |-> k[2], mean_final_price |-> k[2],
      samples |-> k[3], computed_at |-> 0] :
       k \in {<<KeyWB, 200000, 3>>, <<KeyXA, 120000, 3>>, <<KeyYA, 300000, 2>>,
              <<KeyZA, 300000, 3>>, <<KeyVA, 1000000, 3>>}}

\* the rows auction_listings may hold: <<source, model_key, price_current, status>>
ShortlistRows ==
    {[source |-> r[1], model_key |-> r[2], price_current |-> r[3], status |-> r[4],
      end_time |-> Null] :
       r \in {<<"", KeyWB, 100000, "live">>,
              <<"t", KeyXA, 100000, "active">>,
              <<"t", KeyYA, 50000, "live">>,
              <<"t", KeyWA, 100000, "open">>,
              <<"t", NullKey, 50000, "live">>,
              <<"", KeyWB, 50000, "sold">>,
              <<"", KeyWB, Null, "live">>,
              <<"s", KeyWB, 50000, "ending_soon">>,
              <<"", KeyZA, 187000, "live">>,
              <<"t", KeyVA, 700000, "live">>,
              <<"t", KeyVA, 600000, "active">>,
              <<"s", KeyWB, 127000, "live">>}}

\* PER_SOURCE: as shipped (empty), with minimums for source "s" below the
\* global ones, and with minimums and shipping for "s" above them
PerSourceConfigs ==
    {<<>>,
     "s" :> [min_profit |-> 30000, min_roi |-> 10],
     "s" :> [min_profit |-> 80000, min_roi |-> 50, outbound_ship |-> 6000,
             fee_rate |-> 13]}

\* the database and the arguments of a call of get_top_roi_opportunities
InitShortlist ==
    /\ clock = 0
    /\ listings \in [ShortlistIds -> ShortlistRows]
    /\ comps = ShortlistComps
    /\ InitRoi
    /\ InitAlerts
    /\ InitRecompute
    /\ InitWorkers
    /\ InitMail
    /\ fn \in {[name |-> "top_args", order |-> o, per_source |-> c, limit |-> n] :
                 o \in ShortlistOrders, c \in PerSourceConfigs, n \in ShortlistLimits}

\* get_top_roi_opportunities(limit): _fetch_active_listings, _comps_lookup,
\* _shortlist and the slice; [] when the fetch raises
GetTopRoiOpportunities(fetch_raises) ==
    /\ fn.name = "top_args"
    /\ \E opps \in {IF fetch_raises THEN <<>>
                     ELSE Shortlist(FetchActiveListings(fn.order), LatestCompsMap(comps),
                                    fn.per_source)} :
          fn' = [name |-> "top", order |-> fn.order, per_source |-> fn.per_source,
                 limit |-> fn.limit, fetch_raised |-> fetch_raises, opps |-> opps,
                 out |-> SubSeq(opps, 1, IF fn.limit < Len(opps) THEN fn.limit
                                         ELSE Len(opps))]
    /\ UNCHANGED <<clock, listings, comps>>
    /\ UNCHANGED <<roiVars, alertVars, recomputeVars, workerVars, mailVars>>

NextShortlist == \E fetch_raises \in BOOLEAN : GetTopRoiOpportunities(fetch_raises)

SpecShortlist == InitShortlist /\ [][NextShortlist]_vars

(***************************************************************************)
(* Hot radar: the tick.                                                    *)
(***************************************************************************)
\* GF_ALERT_THRESHOLD, in percent
THRESHOLD_ALERT == 70
WINDOW_HOURS == 4
MIN_COMP_SAMPLES == 3
\* GF_ALERT_MAX_EMAILS_PER_TICK: the default and a smaller setting
EmailCaps == {1, 10}

MaxHotTicks == 2

KeyUnknown == <<" ", "U", "n", "k", "n", "o", "w", "n">>

HotComps ==
    {[model_key |-> KeyWB, median_final_price |-> 60000, mean_final_price |-> 60000,
      samples |-> 3, computed_at |-> 0],
     [model_key |-> KeyXA, median_final_price |-> 60000, mean_final_price |-> 60000,
      samples |-> 2, computed_at |-> 0],
     [model_key |-> KeyYA, median_final_price |-> 0, mean_final_price |-> 0,
      samples |-> 3, computed_at |-> 0]}

HotRow(mk, p, b, tl, end, st) ==
    [model_key |-> mk, price_current |-> p, bids_count |-> b, time_left_s |-> tl,
     end_time |-> end, status |-> st]

\* the rows of auction_listings the radar may find
HotRows ==
    {HotRow(KeyWB, 12000, 0, 1800, 60, "live"),
     HotRow(KeyWB, 20000, 0, 3600, 60, "live"),
     HotRow(KeyWB, 20000, 5, 3600, 60, "live"),
     HotRow(KeyWB, 12000, 0, 7200, 60, "live"),
     HotRow(KeyWB, Null, Null, Null, 60, "live"),
     HotRow(KeyWB, 12000, 0, 1800, 0 - 10, "live"),
     HotRow(KeyWB, 12000, 0, 1800, 480, "live"),
     HotRow(KeyWB, 12000, 0, 1800, 600, "live"),
     HotRow(KeyWB, 12000, 0, 1800, Null, "live"),
     HotRow(KeyWB, 12000, 0, 1800, 60, "ended"),
     HotRow(NullKey, 12000, 0, 1800, 60, "live"),
     HotRow(<<>>, 12000, 0, 1800, 60, "live"),
     HotRow(KeyUnknown, 12000, 0, 1800, 60, "live"),
     HotRow(KeyWA, 12000, 0, 1800, 60, "live"),
     HotRow(KeyXA, 12000, 0, 1800, 60, "live"),
     HotRow(KeyYA, 0, 0, 1800, 60, "live")}

\* the rows the second listing is drawn from
HotRowsOther ==
    {HotRow(KeyWB, 12000, 0, 1800, 60, "live"),
     HotRow(KeyXA, 12000, 0, 1800, 60, "live")}

HotPrices == {6000}
\* the (score, max_bid) the roi tick records for a listing
HotRoiArgs == {<<194000, 254000>>}

\* suggest_max_bid(fair_price): fair * 0.82 * (1 - 0.13) - 8 - 5, to the penny,
\* never below 0
SuggestMaxBid(fair_price) ==
    IF fair_price * 3567 <= 65000000 THEN 0
    ELSE Money(fair_price * 3567 - 65000000, 5000)

\* _fetch_listings_ending_soon(WINDOW_HOURS), in the order the database
\* returns the rows
FetchListingsEndingSoon(order, now) ==
    SelectSeq(order, LAMBDA e : listings[e].status = "live"
                                /\ listings[e].end_time # Null
                                /\ listings[e].end_time <= now + WINDOW_HOURS * HalfMinutesPerHour)

\* get_latest_comp_for_model(mk): <<>> for None, else <<row>>
GetLatestCompForModel(mk) ==
    IF \E c \in latestComps : c.model_key = mk
    THEN <<CHOOSE c \in latestComps : c.model_key = mk>>
    ELSE <<>>

\* (variant: a comp with any number of samples is scored)
EnoughSamples_Any(samples) == samples >= 0

\* not (samples < MIN_COMP_SAMPLES)
EnoughSamples(samples) == ~(samples < MIN_COMP_SAMPLES)

\* (variant: every scored listing is recorded)
AtThreshold_Always(score) == score.den > 0

\* not (score < THRESHOLD_ALERT)
AtThreshold(score) == ~(score.num * 100 < THRESHOLD_ALERT * score.den)

\* the score as stored in alerts.score, in thousandths
ScoreThousandths(score) == (score.num * 100) \div (score.den \div 10)

\* the Listing _node_process builds from a fetched row
HotListing(r) ==
    [price_current |-> IF r.price_current = Null THEN 0 ELSE r.price_current,
     bids_count |-> IF r.bids_count = Null THEN 0 ELSE r.bids_count,
     time_left_s |-> IF r.time_left_s = Null THEN 0 ELSE r.time_left_s]

\* whether _node_process reaches record_alert for the fetched row r
HotPasses(r) ==
    /\ r.model_key # NullKey
    /\ r.model_key # <<>>
    /\ IsInvestibleModelKey(r.model_key)
    /\ GetLatestCompForModel(r.model_key) # <<>>
    /\ EnoughSamples(GetLatestCompForModel(r.model_key)[1].samples)
    /\ AtThreshold(SnipeScore(HotListing(r), GetLatestCompForModel(r.model_key)))

\* (variant: the email does not depend on what record_alert returned)
ShouldEmail_AnyCall(created_now, alert_id) == TRUE

\* (variant: every upsert that returned an id is emailed)
ShouldEmail_AnyUpsert(created_now, alert_id) == alert_id # Null

\* if created_now and alert_id
ShouldEmail(created_now, alert_id) == created_now /\ alert_id # Null

\* the part of the loop body of _node_process after record_alert returned res
HotEmail(acc, e, res, now, cap, outcome) ==
    IF ~ShouldEmail(res.inserted, res.id) \/ acc.emails_sent >= cap \/ outcome = "send_raises"
    THEN acc
    ELSE IF outcome = "mark_raises"
    THEN [acc EXCEPT !.sent = Append(@, e), !.mails[e] = @ + 1]
    ELSE [acc EXCEPT !.sent = Append(@, e), !.mails[e] = @ + 1,
                     !.emails_sent = @ + 1,
                     !.tbl = {IF r.id = res.id THEN [r EXCEPT !.sent_at = now] ELSE r :
                              r \in acc.tbl}]

\* one iteration of the loop of _node_process; record_alert raises for the
\* listing named by raises and the exception leaves the node
HotStep(acc, e, now, cap, outcome, raises) ==
    IF acc.aborted \/ ~HotPasses(listings[e]) THEN acc
    ELSE The({
        IF e = raises
        THEN [acc EXCEPT !.aborted = TRUE,
                         !.last = [kind |-> "raised", external_id |-> e,
                                   score |-> ScoreThousandths(score),
                                   max_bid |-> SuggestMaxBid(comp.median_final_price),
                                   created_now |-> FALSE, alert_id |-> Null]]
        ELSE The({HotEmail([acc EXCEPT !.tbl = res.tbl,
                                       !.seq = @ + 1,
                                       !.calls[e] = @ + 1,
                                       !.upserted = @ \cup {e},
                                       !.created = IF res.inserted THEN @ \cup {e} ELSE @,
                                       !.last = [kind |-> "returned", external_id |-> e,
                                                 score |-> ScoreThousandths(score),
                                                 max_bid |->
                                                     SuggestMaxBid(comp.median_final_price),
                                                 created_now |-> res.inserted,
                                                 alert_id |-> res.id]],
                            e, res, now, cap, outcome) :
                  res \in {UpsertAlert(acc.tbl, acc.seq, e, ScoreThousandths(score),
                                       SuggestMaxBid(comp.median_final_price), now)}}) :
        comp \in {GetLatestCompForModel(listings[e].model_key)[1]},
        score \in {SnipeScore(HotListing(listings[e]),
                              GetLatestCompForModel(listings[e].model_key))}})

\* for r in rows
RECURSIVE NodeProcess(_, _, _, _, _, _, _)
NodeProcess(acc, rows, i, now, cap, outcomes, raises) ==
    IF i > Len(rows) THEN acc
    ELSE The({NodeProcess(next_acc, rows, i + 1, now, cap, outcomes, raises) :
              next_acc \in {HotStep(acc, rows[i], now, cap, outcomes[rows[i]], raises)}})

InitHot ==
    /\ clock = 0
    /\ \E r1 \in HotRows, r2 \in HotRowsOther : listings = ("e1" :> r1) @@ ("e2" :> r2)
    /\ comps = HotComps
    /\ InitRoi
    /\ InitAlerts
    /\ InitRecompute
    /\ InitWorkers
    /\ InitMail
    /\ InitCalls

\* the upstream retriever reports a new current price
HotReprice(e, p) ==
    /\ listings[e].price_current \notin {Null, p}
    /\ listings' = [listings EXCEPT ![e].price_current = p]
    /\ UNCHANGED <<clock, comps>>
    /\ UNCHANGED <<roiVars, alertVars, recomputeVars, workerVars, callVars, mailVars>>

\* one run of the hot radar graph: _node_init, _node_fetch, _node_process
HotTick(order, cap, outcomes, raises) ==
    /\ ticks < MaxHotTicks
    /\ ticks' = ticks + 1
    /\ \E rows \in {FetchListingsEndingSoon(order, clock)} :
       \E acc \in {NodeProcess([tbl |-> alerts, seq |-> alertSeq, calls |-> alertCalls,
                                last |-> lastAlert, emails_sent |-> 0, upserted |-> {},
                                created |-> {}, sent |-> <<>>, mails |-> hotMails,
                                aborted |-> FALSE],
                               rows, 1, clock, cap, outcomes, raises)} :
          /\ raises # "none" => acc.aborted
          /\ \A e \in ExternalIds :
                outcomes[e] # "delivered" => e \in acc.created
          /\ alerts' = acc.tbl
          /\ alertSeq' = acc.seq
          /\ alertCalls' = acc.calls
          /\ lastAlert' = acc.last
          /\ hotMails' = acc.mails
          /\ hotTick' = [ran |-> TRUE, cap |-> cap,
                         fetched |-> {rows[i] : i \in 1..Len(rows)},
                         upserted |-> acc.upserted, created |-> acc.created,
                         sent |-> acc.sent, aborted |-> acc.aborted]
    /\ UNCHANGED <<markers, snapshots, notified, evals, prevSiren, trail, rollbacks>>
    /\ UNCHANGED <<alertState, digests, tickLog>>
    /\ UNCHANGED <<clock, listings, comps>>
    /\ UNCHANGED <<recomputeVars, workerVars, callVars>>

\* the roi tick records a listing the radar has not alerted on yet
HotRoiRecordAlert(e, score, max_bid) ==
    /\ alerts = {}
    /\ RoiRecordAlert(e, score, max_bid)

NextHot ==
    \/ \E p \in HotPrices : HotReprice("e1", p)
    \/ \E e \in ExternalIds : \E a \in HotRoiArgs : HotRoiRecordAlert(e, a[1], a[2])
    \/ \E order \in Orders, cap \in EmailCaps, outcomes \in [ExternalIds -> SendOutcomes],
          raises \in ExternalIds \cup {"none"} :
          HotTick(order, cap, outcomes, raises)

SpecHot == InitHot /\ [][NextHot]_vars

(***************************************************************************)
(* The roi tick and the hot radar over listings with data errors.          *)
(***************************************************************************)
ExcludeComps ==
    {[model_key |-> KeyWB, median_final_price |-> 100000, mean_final_price |-> 100000,
      samples |-> 3, computed_at |-> 0],
     [model_key |-> KeyXA, median_final_price |-> 100000, mean_final_price |-> 100000,
      samples |-> 2, computed_at |-> 0],
     [model_key |-> KeyYA, median_final_price |-> 0, mean_final_price |-> 0,
      samples |-> 3, computed_at |-> 0]}

\* the model_key of the first listing: sound, NULL, empty, blank, "unknown",
\* without comp, with a comp of 2 samples, with a comp of median 0
ExcludeKeys == {KeyWB, NullKey, <<>>, <<" ">>, KeyUnknown, KeyZA, KeyXA, KeyYA}
ExcludePrices == {Null, 12000}

InitExclude ==
    /\ clock = 0
    /\ \E k \in ExcludeKeys, p \in ExcludePrices :
          listings =
            ("e1" :> [model_key |-> k, price_current |-> p, bids_count |-> 0,
                      time_left_s |-> 1800, end_time |-> 60, status |-> "live",
                      source |-> ""])
            @@ ("e2" :> [model_key |-> KeyWB, price_current |-> 12000, bids_count |-> 0,
                         time_left_s |-> 1800, end_time |-> 60, status |-> "live",
                         source |-> ""])
    /\ comps = ExcludeComps
    /\ InitRoi
    /\ InitAlerts
    /\ InitRecompute
    /\ InitWorkers
    /\ InitMail
    /\ InitCalls

NextExclude ==
    \/ \E order \in Orders : ProcessRoiAlerts(order)
    \/ \E order \in Orders, raising \in SUBSET ExternalIds, outcome \in SendOutcomes :
          RecordAlertsAndEmail(order, raising, outcome)
    \/ \E order \in Orders, cap \in EmailCaps, outcomes \in [ExternalIds -> SendOutcomes],
          raises \in ExternalIds \cup {"none"} :
          HotTick(order, cap, outcomes, raises)

SpecExclude == InitExclude /\ [][NextExclude]_vars

(***************************************************************************)
(* The main graph runs the hot radar and then the roi tick (edges          *)
(* "attributes" -> "hot" -> "roi"); both call record_alert on the one      *)
(* alerts table.                                                           *)
(***************************************************************************)
ProducerEndTimes(e) == IF e = "e1" THEN {0 - 10, 60} ELSE {0 - 10}
ProducerPrices == {12000, 20000}

InitProducers ==
    /\ clock = 0
    /\ \E t1 \in ProducerEndTimes("e1"), p1 \in ProducerPrices :
          listings =
            ("e1" :> [model_key |-> KeyWB, price_current |-> p1, bids_count |-> 0,
                      time_left_s |-> 1800, end_time |-> t1, status |-> "live",
                      source |-> ""])
            @@ ("e2" :> [model_key |-> KeyWB, price_current |-> 12000, bids_count |-> 0,
                         time_left_s |-> 1800,
                         end_time |-> The(ProducerEndTimes("e2")), status |-> "live",
                         source |-> ""])
    /\ comps = ExcludeComps
    /\ InitRoi
    /\ InitAlerts
    /\ InitRecompute
    /\ InitWorkers
    /\ InitMail
    /\ InitCalls

NextProducers ==
    \/ \E order \in Orders, raising \in SUBSET ExternalIds, outcome \in SendOutcomes :
          RecordAlertsAndEmail(order, raising, outcome)
    \/ \E order \in Orders, cap \in EmailCaps, outcomes \in [ExternalIds -> SendOutcomes],
          raises \in ExternalIds \cup {"none"} :
          HotTick(order, cap, outcomes, raises)

SpecProducers == InitProducers /\ [][NextProducers]_vars

(***************************************************************************)
(* Claims about the comps recompute.                                       *)
(***************************************************************************)
\* C7: when a step of a comps recompute (truncate, aggregate-insert, prune,
\* latest-view refresh) has failed, the recompute is aborted with no partial
\* replace: once the run is over the comps table holds exactly the rows of the
\* previous snapshot.
C7_FailedRecomputeKeepsPrevious ==
    (compsPc = "idle" /\ compsFailed # {}) => comps = compsPrev

\* C8: a load of latest_comps_map made while a recompute is in progress sees
\* the complete snapshot from before the recompute or, once the insert has
\* committed, the complete new snapshot, never an empty or partially rebuilt
\* table.
C8_ReaderSeesOldOrNew ==
    readerSaw.during =>
        \/ readerSaw.rows = readerSaw.pre
        \/ readerSaw.computed

(***************************************************************************)
(* Overlapping ROI ticks: separate processes, each with its own connection *)
(* and its own marker transaction (READ COMMITTED), interleaved statement  *)
(* by statement.                                                           *)
(***************************************************************************)
Tiers == <<"new_high", "bucket", "siren">>

TierMarker(stage, op) ==
    CASE stage = "new_high" -> NewHigh
      [] stage = "bucket" -> BucketMarker(RoiBucket(op))
      [] OTHER -> Siren

\* the condition under which a tier of _process_roi_alerts inserts its marker
\* and sends its email, evaluated on the rows tbl its SELECT sees
TierFires(stage, tbl, op, now) ==
    /\ TierRuns(stage, op, now)
    /\ CASE stage = "new_high" -> ~MarkerExists(tbl, op.external_id, NewHigh)
         [] stage = "bucket" ->
              ~MarkerExists(tbl, op.external_id, BucketMarker(RoiBucket(op)))
         [] OTHER -> SirenAllowed(tbl, op, now)

SameKey(r, q) == r.external_id = q.external_id /\ r.marker = q.marker

\* the committed table with the rows written by a transaction laid over it:
\* what the transaction's own statements see, and what its commit leaves
Overlay(tbl, pending) ==
    {r \in tbl : ~\E q \in pending : SameKey(r, q)} \cup pending

\* the position after tier t of item i
AfterItem(r) ==
    IF r.i < Len(r.opps) THEN [r EXCEPT !.pc = "item", !.i = r.i + 1, !.t = 0]
    ELSE [r EXCEPT !.pc = "commit"]

AfterTier(r) ==
    IF r.t < Len(Tiers) THEN [r EXCEPT !.pc = "check", !.t = r.t + 1]
    ELSE AfterItem(r)

\* a worker enters _process_roi_alerts with the opportunities of its tick;
\* now = _now_utc(), and the transaction (hence the database's now()) starts
WorkerBegin(w, order) ==
    /\ wk[w].pc = "idle"
    /\ ticks < MaxOverlapTicks
    /\ ticks' = ticks + 1
    /\ \E opps \in {BuildAllOppsForRoi(FetchActiveListings(order), 1, LatestCompsMap(comps))} :
          wk' = IF opps = <<>> THEN wk
                ELSE [wk EXCEPT ![w] = [pc |-> "item", i |-> 1, t |-> 0, now |-> clock,
                                        opps |-> opps, pending |-> {}]]
    /\ UNCHANGED <<markers, snapshots, notified, evals, prevSiren, trail, rollbacks>>
    /\ UNCHANGED <<clock, listings, comps>>
    /\ UNCHANGED <<alertVars, recomputeVars, callVars, mailVars>>

\* top of the loop body: the snapshot insert and the two expiry checks
WorkerItem(w) ==
    /\ wk[w].pc = "item"
    /\ \E op \in {wk[w].opps[wk[w].i]} :
          wk' = [wk EXCEPT ![w] =
                    IF \/ op.end_time # Null /\ op.end_time <= wk[w].now
                       \/ HumaniseExpired(op.end_time, wk[w].now)
                    THEN AfterItem(wk[w])
                    ELSE [wk[w] EXCEPT !.pc = "check", !.t = 1]]
    /\ UNCHANGED roiVars
    /\ UNCHANGED <<clock, listings, comps>>
    /\ UNCHANGED <<alertVars, recomputeVars, callVars, mailVars>>

\* the SELECT of a tier (_marker_exists, _marker_last_created_at): it sees the
\* committed rows and the rows the worker's own transaction has written
WorkerCheck(w) ==
    /\ wk[w].pc = "check"
    /\ wk' = [wk EXCEPT ![w] =
                 IF TierFires(Tiers[wk[w].t], Overlay(markers, wk[w].pending),
                              wk[w].opps[wk[w].i], wk[w].now)
                 THEN [wk[w] EXCEPT !.pc = "insert"]
                 ELSE AfterTier(wk[w])]
    /\ UNCHANGED roiVars
    /\ UNCHANGED <<clock, listings, comps>>
    /\ UNCHANGED <<alertVars, recomputeVars, callVars, mailVars>>

\* _insert_marker followed by _send_*_email.  The INSERT ... ON CONFLICT waits
\* while another transaction holds an uncommitted row with the same key; then
\* it inserts, or overwrites created_at of the row by then committed.
WorkerInsert(w) ==
    /\ wk[w].pc = "insert"
    /\ \E op \in {wk[w].opps[wk[w].i]} :
       \E marker \in {TierMarker(Tiers[wk[w].t], wk[w].opps[wk[w].i])} :
          /\ \A v \in Workers \ {w} :
                ~MarkerExists(wk[v].pending, op.external_id, marker)
          /\ wk' = [wk EXCEPT ![w] =
                       AfterTier([wk[w] EXCEPT !.pending =
                                     InsertMarker(wk[w].pending, op.external_id, marker,
                                                  wk[w].now)])]
          /\ notified' = AddOne(notified, <<op.external_id, marker>>, MaxOverlapTicks)
    /\ UNCHANGED <<markers, snapshots, evals, prevSiren, trail, ticks, rollbacks>>
    /\ UNCHANGED <<clock, listings, comps>>
    /\ UNCHANGED <<alertVars, recomputeVars, callVars, mailVars>>

\* conn.commit(): the snapshots and the marker rows of the tick become visible
WorkerCommit(w) ==
    /\ wk[w].pc = "commit"
    /\ markers' = Overlay(markers, wk[w].pending)
    /\ snapshots' = [e \in DOMAIN snapshots |->
                        snapshots[e] + Cardinality({i \in 1..Len(wk[w].opps) :
                                                      wk[w].opps[i].external_id = e})]
    /\ wk' = [wk EXCEPT ![w] = IdleWorker]
    /\ UNCHANGED <<notified, evals, prevSiren, trail, ticks, rollbacks>>
    /\ UNCHANGED <<clock, listings, comps>>
    /\ UNCHANGED <<alertVars, recomputeVars, callVars, mailVars>>

\* a database with one active listing, e1, that two workers evaluate
InitOverlap ==
    /\ clock = 0
    /\ \E t1 \in {11, 22} :
          listings =
            ("e1" :> [model_key |-> KeyWB, price_current |-> 204000, end_time |-> t1,
                      status |-> "live"])
            @@ ("e2" :> [model_key |-> KeyWA, price_current |-> 60000, end_time |-> Null,
                         status |-> "ended"])
    /\ comps = InitComps
    /\ InitRoi
    /\ InitAlerts
    /\ InitRecompute
    /\ InitWorkers
    /\ InitMail
    /\ InitCalls

NextOverlap ==
    \/ \E d \in ClockSteps : ClockAdvance(d)
    \/ \E p \in Prices("e1") : Reprice("e1", p)
    \/ \E w \in Workers : \E order \in Orders : WorkerBegin(w, order)
    \/ \E w \in Workers : WorkerItem(w)
    \/ \E w \in Workers : WorkerCheck(w)
    \/ \E w \in Workers : WorkerInsert(w)
    \/ \E w \in Workers : WorkerCommit(w)

SpecOverlap == InitOverlap /\ [][NextOverlap]_vars

(***************************************************************************)
(* Claims about the marker table under overlapping ticks.                  *)
(***************************************************************************)
\* C9: when two ROI ticks overlap, each with its own marker transaction, and
\* evaluate the same listing, every one-shot marker (new_high, bucket_n) that
\* was notified has been notified once, and once both ticks are over it is
\* exactly one row of the marker table.
C9_OverlapOneRowOneNotification ==
    \A k \in DOMAIN notified :
        k[2].kind \in {"new_high", "bucket"} =>
            /\ notified[k] <= 1
            /\ (\A w \in Workers : wk[w].pc = "idle") =>
                  Cardinality(MarkerRows(k[1], k[2])) = 1

\* in this step no marker row is duplicated, no new_high or bucket row changes
\* its created_at, and no siren row moves back in time
MarkerRowsStable ==
    \A r \in markers : \A q \in markers' :
        SameKey(r, q) =>
            /\ r.marker.kind \in {"new_high", "bucket"} => q.created_at = r.created_at
            /\ r.marker.kind = "siren" => q.created_at >= r.created_at

\* C10: the marker table holds at most one row per (external_id, marker) in
\* every reachable state; the created_at of a new_high or bucket_n row never
\* changes once written, and the created_at of a siren row never decreases.
C10_MarkerRowsWriteOnce ==
    /\ [](\A r, q \in markers : SameKey(r, q) => r = q)
    /\ [][MarkerRowsStable]_vars

(***************************************************************************)
(* Claims about overlapping comps runs.                                    *)
(***************************************************************************)
\* C11: in every reachable state, those reached by two overlapping recomputes
\* whose truncate and insert steps interleave included, the comps table holds
\* at most one row per model_key.
C11_OneCompRowPerModelKey ==
    \A r, q \in comps : r.model_key = q.model_key => r = q

\* C11 witness: the insert of one run met the rows that the other run inserted
\* after the first one's truncate, at a later time and over more sales, and both
\* runs are over
C11_Witness ==
    /\ \A r \in Recomputers : rc[r].pc = "idle"
    /\ rc["r1"].failed
    /\ ~rc["r2"].failed
    /\ \E q \in comps : q.model_key = KeyWB /\ q.samples = 2 /\ q.computed_at < clock

\* C12: a run that is not forced and finds the latest computed_at less than
\* COMPS_MIN_INTERVAL_HOURS old changes nothing (no truncate, insert, prune or
\* refresh: the run stays idle, comps and latest_comps are as they were); a
\* forced run, and a run that finds comps empty, always starts the recompute;
\* and no step of an idle run touches comps or latest_comps.
C12_SkipWithinIntervalElseRecompute ==
    [][/\ lastDecide'.n # lastDecide.n =>
            /\ (/\ ~lastDecide'.force
                /\ lastDecide'.last_run # Null
                /\ lastDecide'.now - lastDecide'.last_run
                     < COMPS_MIN_INTERVAL_HOURS * HalfMinutesPerHour)
               => /\ compsPc' = "idle"
                  /\ compsRuns' = compsRuns
                  /\ comps' = comps
                  /\ latestComps' = latestComps
            /\ (lastDecide'.force \/ comps = {}) =>
                  /\ compsPc' = "truncate"
                  /\ compsRuns' = compsRuns + 1
       /\ (compsPc = "idle" /\ compsPc' = "idle") =>
            /\ comps' = comps
            /\ latestComps' = latestComps]_vars

\* C12 witness: a run that was not forced found a snapshot three hours old and
\* left it alone
C12_Witness ==
    /\ lastDecide.n > 1
    /\ ~lastDecide.force
    /\ lastDecide.last_run # Null
    /\ lastDecide.now - lastDecide.last_run = 360
    /\ compsPc = "idle"
    /\ comps # {}
    /\ clock = lastDecide.now

\* the (model_key, median, mean, sample_count) rows of a comps table
Snapshot(tbl) ==
    {[model_key |-> r.model_key, median_final_price |-> r.median_final_price,
      mean_final_price |-> r.mean_final_price, samples |-> r.samples] : r \in tbl}

\* the latest two committed recomputes were forced and read the same listings,
\* and the second of them is over without a failure
ForcedTwiceOverSameListings ==
    /\ Len(computeLog) = 2
    /\ computeLog[1].force
    /\ computeLog[2].force
    /\ computeLog[1].listings = computeLog[2].listings
    /\ compsPc = "idle"
    /\ compsFailed = {}

\* no listing's end_time is inside the trailing window at one of the two
\* recomputes and outside it at the other
SameWindow ==
    \A e \in DOMAIN listings :
       (computeLog[1].listings[e].end_time
            >= computeLog[1].now - COMPS_WINDOW_DAYS * HalfMinutesPerDay)
       <=> (computeLog[2].listings[e].end_time
            >= computeLog[2].now - COMPS_WINDOW_DAYS * HalfMinutesPerDay)

\* C13 (as stated): two forced recomputes over unchanged listing data leave the
\* same set of (model_key, median, mean, sample_count) rows, and every row of
\* comps is a row of the second recompute.
C13_ForcedTwiceSameSnapshot ==
    ForcedTwiceOverSameListings =>
        /\ Snapshot(comps) = Snapshot(computeLog[1].tbl)
        /\ \A r \in comps : r.computed_at = computeLog[2].now

\* C13 (amended): two forced recomputes over unchanged listing data, between
\* which no listing's end_time leaves the trailing window, leave the same set of
\* (model_key, median, mean, sample_count) rows, and every row of comps is a row
\* of the second recompute.
C13_ForcedTwiceSameSnapshotInWindow ==
    (ForcedTwiceOverSameListings /\ SameWindow) =>
        /\ Snapshot(comps) = Snapshot(computeLog[1].tbl)
        /\ \A r \in comps : r.computed_at = computeLog[2].now

\* C13 witness: the second forced recompute ran hours after the first over the
\* same listings and replaced a snapshot that was not empty
C13_Witness ==
    /\ ForcedTwiceOverSameListings
    /\ SameWindow
    /\ computeLog[1].now < computeLog[2].now
    /\ computeLog[1].tbl # {}
    /\ comps # {}

(***************************************************************************)
(* Claims about the valuation matcher.                                     *)
(***************************************************************************)
\* the weights and the priority order the claims state
ClaimWeight(g) ==
    CASE g = "A" -> 100 [] g = "B" -> 85 [] g = "C" -> 70 [] g = "D" -> 50 [] g = "b" -> 80

ClaimOrder == <<"A", "B", "C", "D", "b">>

ClaimRank(g) == CHOOSE i \in 1..Len(ClaimOrder) : ClaimOrder[i] = g

GradeKey(base, g) == base \o <<"_", g>>

\* the call resolved to the comp of key k with the median of that comp scaled
\* by weight(g1) / weight(g2)
ResolvedScaled(k, g1, g2) ==
    /\ fn.out.found
    /\ fn.out.comp_key = k
    /\ fn.out.num * ClaimWeight(g2)
         = fn.cmap[k].median_final_price * ClaimWeight(g1) * fn.out.den

\* C14 (as stated): when base_g1 has no comp and base_g2 has one with median m,
\* resolve(base_g1) returns the comp of base_g2 with the median
\* m * weight(g1) / weight(g2).
C14_FallbackRescales ==
    fn.name = "resolve" =>
        \A base \in {<<>>, <<"w">>} : \A g1, g2 \in Grades :
           (/\ fn.model_key = GradeKey(base, g1)
            /\ GradeKey(base, g1) \notin DOMAIN fn.cmap
            /\ GradeKey(base, g2) \in DOMAIN fn.cmap)
           => ResolvedScaled(GradeKey(base, g2), g1, g2)

\* C14 (amended): when base is not empty, base_g1 has no comp and base_g2 is
\* the first of base_A, base_B, base_C, base_D, base_b that has one, with a
\* median m > 0, resolve(base_g1) returns the comp of base_g2 with the median
\* m * weight(g1) / weight(g2); "w_A" against a "w_B" of 100.00 gives 117.65.
C14_FirstFallbackRescales ==
    fn.name = "resolve" =>
        /\ \A base \in {<<>>, <<"w">>} : \A g1, g2 \in Grades :
              (/\ base # <<>>
               /\ fn.model_key = GradeKey(base, g1)
               /\ GradeKey(base, g1) \notin DOMAIN fn.cmap
               /\ GradeKey(base, g2) \in DOMAIN fn.cmap
               /\ fn.cmap[GradeKey(base, g2)].median_final_price > 0
               /\ \A g \in Grades : ClaimRank(g) < ClaimRank(g2)
                                     => GradeKey(base, g) \notin DOMAIN fn.cmap)
              => ResolvedScaled(GradeKey(base, g2), g1, g2)
        /\ (/\ fn.model_key = KeyWA
            /\ DOMAIN fn.cmap = {KeyWB}
            /\ fn.cmap[KeyWB].median_final_price = 100000)
           => Money(fn.out.num, fn.out.den) = 117650

\* C14 witness: "w_b" resolved through "w_C", the first graded key with a comp,
\* while "w_D" has one too
C14_Witness ==
    /\ fn.name = "resolve"
    /\ fn.model_key = <<"w", "_", "b">>
    /\ DOMAIN fn.cmap = {<<"w", "_", "C">>, <<"w", "_", "D">>}
    /\ fn.out.found
    /\ fn.out.comp_key = <<"w", "_", "C">>
    /\ fn.out.num * 70 = 100000 * 80 * fn.out.den

\* the split the claims state, of a key stripped of surrounding whitespace:
\* base and grade when the key ends in "_" and one of A, B, C, D, b, else the
\* whole key and no grade
ClaimSplit(model_key) ==
    LET s == Strip(model_key)
        n == Len(s)
    IN IF n >= 2 /\ s[n - 1] = "_" /\ s[n] \in Grades
       THEN <<SubSeq(s, 1, n - 2), <<s[n]>>>>
       ELSE <<s, (<<>>)>>

\* the grades g, other than the key's own, for which base_g has a comp
ClaimAlternates(model_key, cmap) ==
    {g \in Grades : /\ GradeKey(ClaimSplit(model_key)[1], g) # model_key
                    /\ GradeKey(ClaimSplit(model_key)[1], g) \in DOMAIN cmap}

\* the first of them in the order A, B, C, D, b
ClaimFirstAlternate(model_key, cmap) ==
    GradeKey(ClaimSplit(model_key)[1],
             CHOOSE g \in ClaimAlternates(model_key, cmap) :
                \A h \in ClaimAlternates(model_key, cmap) : ClaimRank(g) <= ClaimRank(h))

\* the call was given a key that is neither None nor empty
ResolvedAKey ==
    /\ fn.name = "resolve"
    /\ fn.model_key # NullKey
    /\ fn.model_key # <<>>

\* C15 (as stated): the exact comp is used whenever there is one and its median
\* is returned unscaled; without an exact comp the first of base_A, base_B,
\* base_C, base_D, base_b (the key itself skipped) that has a comp is used;
\* (base, grade) is the split at the last underscore, the suffix being a grade
\* only if it is one of A, B, C, D, b.
C15_ExactThenFirstGrade ==
    ResolvedAKey =>
        /\ SplitModelKeyGrade(fn.model_key) = ClaimSplit(fn.model_key)
        /\ fn.model_key \in DOMAIN fn.cmap =>
              /\ fn.out.found
              /\ fn.out.comp_key = fn.model_key
              /\ fn.out.num = fn.cmap[fn.model_key].median_final_price * fn.out.den
        /\ (fn.model_key \notin DOMAIN fn.cmap
            /\ ClaimAlternates(fn.model_key, fn.cmap) # {}) =>
              /\ fn.out.found
              /\ fn.out.comp_key = ClaimFirstAlternate(fn.model_key, fn.cmap)

\* C15 (amended): the exact comp is used whenever there is one: its median is
\* returned unscaled when positive, and nothing is returned otherwise; without
\* an exact comp and with a base that is not empty, the first of base_A, base_B,
\* base_C, base_D, base_b (the key itself skipped) that has a comp is used, and
\* is returned when its median is positive; (base, grade) is the split at the
\* last underscore, the suffix being a grade only if it is one of A, B, C, D, b.
C15_ExactThenFirstGradePositive ==
    ResolvedAKey =>
        /\ SplitModelKeyGrade(fn.model_key) = ClaimSplit(fn.model_key)
        /\ fn.model_key \in DOMAIN fn.cmap =>
              IF fn.cmap[fn.model_key].median_final_price > 0
              THEN /\ fn.out.found
                   /\ fn.out.comp_key = fn.model_key
                   /\ fn.out.num = fn.cmap[fn.model_key].median_final_price * fn.out.den
              ELSE fn.out = NoComp
        /\ (fn.model_key \notin DOMAIN fn.cmap
            /\ ClaimSplit(fn.model_key)[1] # <<>>
            /\ ClaimAlternates(fn.model_key, fn.cmap) # {}) =>
              IF fn.cmap[ClaimFirstAlternate(fn.model_key, fn.cmap)].median_final_price > 0
              THEN /\ fn.out.found
                   /\ fn.out.comp_key = ClaimFirstAlternate(fn.model_key, fn.cmap)
              ELSE fn.out = NoComp

\* C15 witness: "w_C" has a comp of its own and so has "w_A", first in the
\* order; the comp of "w_C" is returned with its median as it is
C15_Witness ==
    /\ fn.name = "resolve"
    /\ fn.model_key = <<"w", "_", "C">>
    /\ DOMAIN fn.cmap = {KeyWA, <<"w", "_", "C">>}
    /\ fn.cmap[KeyWA].median_final_price = 100000
    /\ fn.out.found
    /\ fn.out.comp_key = <<"w", "_", "C">>
    /\ fn.out.num = 100000 * fn.out.den

\* C16: a key without an exact comp and without a comp for any grade of its
\* base, an empty key and a key without underscore included, resolves to
\* (None, None); every call returns, with a comp or with (None, None).
C16_UnknownKeyResolvesToNone ==
    fn.name = "resolve" =>
        /\ fn.out.found \in BOOLEAN
        /\ ~fn.out.found => fn.out = NoComp
        /\ (/\ fn.model_key \notin DOMAIN fn.cmap
            /\ \A g \in Grades :
                  GradeKey(ClaimSplit(fn.model_key)[1], g) \notin DOMAIN fn.cmap)
           => fn.out = NoComp

\* C16 witness: "w_x" is looked up among comps for "w", "w_A" and "w_B" and
\* resolves to (None, None)
C16_Witness ==
    /\ fn.name = "resolve"
    /\ fn.model_key = <<"w", "_", "x">>
    /\ DOMAIN fn.cmap = {<<"w">>, KeyWA, KeyWB}
    /\ \A k \in DOMAIN fn.cmap : fn.cmap[k].median_final_price = 100000
    /\ fn.out = NoComp

(***************************************************************************)
(* Claims about the profit / ROI estimator.                                *)
(***************************************************************************)
\* C17: the estimator returns fees = median * fee_rate rounded half-up to the
\* penny, profit = median - fees - outbound - (ask + inbound) rounded half-up to
\* the penny, and roi = profit / (ask + inbound) when that purchase cost is
\* positive and 0 otherwise; ask 100, median 200, fee rate 0.13, outbound 7 and
\* inbound 0 give fees 26.00, profit 67.00 and roi 0.67.
C17_EstimatorArithmetic ==
    fn.name = "estimate" =>
        /\ fn.out.fees = Money(fn.num * fn.fee_rate, fn.den * 100)
        /\ fn.out.profit
             = Money(fn.num - (fn.out.fees + fn.outbound_ship + fn.ask_price
                                + fn.inbound_ship) * fn.den, fn.den)
        /\ IF fn.ask_price + fn.inbound_ship > 0
           THEN fn.out.roi_num * (fn.ask_price + fn.inbound_ship)
                   = fn.out.profit * fn.out.roi_den
           ELSE fn.out.roi_num = 0
        /\ (/\ fn.ask_price = 100000 /\ fn.num = 200000 /\ fn.den = 1
            /\ fn.fee_rate = 13 /\ fn.outbound_ship = 7000 /\ fn.inbound_ship = 0)
           => /\ fn.out.fees = 26000
              /\ fn.out.profit = 67000
              /\ fn.out.roi_num * 100 = 67 * fn.out.roi_den

(***************************************************************************)
(* Claims about the shortlist.                                             *)
(***************************************************************************)
\* the comp and the estimate of listing e in the call's database
ClaimResolved(e) == GetCompWithGradeAdjustment(listings[e].model_key, LatestCompsMap(comps))

ClaimEstimate(e) ==
    EstimateProfit(listings[e].price_current, ClaimResolved(e).num, ClaimResolved(e).den,
                   SourceCfg(listings[e].source, fn.per_source).fee_rate,
                   SourceCfg(listings[e].source, fn.per_source).outbound_ship,
                   INBOUND_SHIP_DEFAULT_GBP)

\* listing e is active, its model_key is investible, it has a resolvable comp
\* over at least 3 samples, and its profit and roi reach the minimums in force
\* for its source
ClaimQualifies(e) ==
    /\ listings[e].status \in {"active", "live", "open", "ending_soon"}
    /\ listings[e].price_current # Null
    /\ IsInvestibleModelKey(listings[e].model_key)
    /\ ClaimResolved(e).found
    /\ ClaimResolved(e).samples >= 3
    /\ ClaimEstimate(e).profit >= SourceCfg(listings[e].source, fn.per_source).min_profit
    /\ RoiGE(ClaimEstimate(e), SourceCfg(listings[e].source, fn.per_source).min_roi)

\* C18: the shortlist holds exactly the qualifying listings, once each, ordered
\* by profit descending and, at equal profit, by roi descending;
\* get_top_roi_opportunities(limit) returns its first limit entries; a listing
\* asked at 100 against a median of 200 is on it, one against a median of 120
\* is not.
C18_ShortlistFilterOrderLimit ==
    (fn.name = "top" /\ ~fn.fetch_raised) =>
        /\ {fn.opps[i].external_id : i \in 1..Len(fn.opps)}
             = {e \in ShortlistIds : ClaimQualifies(e)}
        /\ Len(fn.opps) = Cardinality({e \in ShortlistIds : ClaimQualifies(e)})
        /\ \A i \in 1..Len(fn.opps) :
              /\ fn.opps[i].profit = ClaimEstimate(fn.opps[i].external_id).profit
              /\ fn.opps[i].roi_num = ClaimEstimate(fn.opps[i].external_id).roi_num
              /\ fn.opps[i].roi_den = ClaimEstimate(fn.opps[i].external_id).roi_den
        /\ \A i, j \in 1..Len(fn.opps) :
              i < j =>
                 \/ fn.opps[i].profit > fn.opps[j].profit
                 \/ /\ fn.opps[i].profit = fn.opps[j].profit
                    /\ (fn.opps[i].roi_num \div PennyMills) * (fn.opps[j].roi_den \div PennyMills)
                         >= (fn.opps[j].roi_num \div PennyMills)
                              * (fn.opps[i].roi_den \div PennyMills)
        /\ Len(fn.out) = (IF fn.limit < Len(fn.opps) THEN fn.limit ELSE Len(fn.opps))
        /\ \A i \in 1..Len(fn.out) : fn.out[i] = fn.opps[i]
        /\ \A e \in ShortlistIds :
              (/\ listings[e].status = "live"
               /\ listings[e].price_current = 100000
               /\ listings[e].source = "") =>
                 /\ listings[e].model_key = KeyWB
                      => \E i \in 1..Len(fn.opps) :
                            /\ fn.opps[i].external_id = e
                            /\ fn.opps[i].profit = 67000
                 /\ listings[e].model_key = KeyXA
                      => \A i \in 1..Len(fn.opps) : fn.opps[i].external_id # e

\* C18 witness: three listings qualify, two of them with the same profit of
\* 67.00; the one with the higher roi comes first of the two and the call
\* returns the first two of the three
C18_Witness ==
    /\ fn.name = "top"
    /\ ~fn.fetch_raised
    /\ fn.limit = 2
    /\ Len(fn.opps) = 3
    /\ fn.opps[1].profit = 117000
    /\ fn.opps[2].profit = 67000
    /\ fn.opps[3].profit = 67000
    /\ fn.opps[2].model_key = KeyWB
    /\ fn.opps[3].model_key = KeyZA
    /\ fn.out = SubSeq(fn.opps, 1, 2)
    /\ fn.order[1] = fn.opps[3].external_id

\* C19: the minimums the shortlist applies to a source are the greater of the
\* global minimum and the source's configured one, so every listing on the
\* shortlist reaches the global minimums (profit 50, roi 0.25) whatever the
\* overrides.
C19_GreaterOfGlobalAndSourceMinimum ==
    (fn.name = "top" /\ ~fn.fetch_raised) =>
        /\ \A e \in ShortlistIds :
              LET cfg == IF listings[e].source \in DOMAIN fn.per_source
                         THEN fn.per_source[listings[e].source] ELSE <<>>
                  applied == SourceCfg(listings[e].source, fn.per_source)
              IN /\ applied.min_profit >= 50000
                 /\ applied.min_roi >= 25
                 /\ "min_profit" \in DOMAIN cfg => applied.min_profit >= cfg.min_profit
                 /\ "min_roi" \in DOMAIN cfg => applied.min_roi >= cfg.min_roi
                 /\ applied.min_profit \in {50000} \cup {cfg[k] : k \in DOMAIN cfg}
                 /\ applied.min_roi \in {25} \cup {cfg[k] : k \in DOMAIN cfg}
        /\ \A i \in 1..Len(fn.opps) :
              /\ fn.opps[i].profit >= 50000
              /\ fn.opps[i].roi_num * 100 >= 25 * fn.opps[i].roi_den

(***************************************************************************)
(* Claims about the persisted estimates.                                   *)
(***************************************************************************)
\* listing e is active with an investible model_key and a comp that resolves,
\* by its own key or by a grade fallback
ClaimResolvable(e) ==
    /\ listings[e].status \in {"active", "live", "open", "ending_soon"}
    /\ listings[e].price_current # Null
    /\ IsInvestibleModelKey(listings[e].model_key)
    /\ ClaimResolved(e).found

\* the estimate of listing e over the rows the tick read
ClaimTickEstimate(e) ==
    EstimateProfit(listings[e].price_current, ClaimResolved(e).num, ClaimResolved(e).den,
                   FEE_RATE, OUTBOUND_SHIP_DEFAULT_GBP, INBOUND_SHIP_DEFAULT_GBP)

\* C20: when a tick completes, every active listing with an investible
\* model_key and a resolvable comp (exact or grade fallback) has roi_estimate
\* and max_bid set to that tick's values.
C20_EstimatesPersistedForEveryResolvable ==
    [][ticks' = ticks + 1 =>
         \A e \in ExternalIds :
            ClaimResolvable(e) =>
               /\ listings'[e].roi_estimate
                    = <<ClaimTickEstimate(e).roi_num, ClaimTickEstimate(e).roi_den>>
               /\ listings'[e].max_bid
                    = Money(Money(ClaimResolved(e).num, ClaimResolved(e).den) * 80, 100)]_vars

(***************************************************************************)
(* Claims about the marker loop of a tick.                                 *)
(***************************************************************************)
\* the opportunities a tick starting now evaluates (any row order gives the
\* same set)
ClaimOpps == Range(BuildAllOppsForRoi(FetchActiveListings(The(Orders)), 1, LatestCompsMap(comps)))

\* C21: a tick whose marker loop raises leaves the marker table and the
\* snapshots exactly as committed before it (no insert of its own visible, no
\* earlier row or created_at touched), and a tick that commits evaluates every
\* opportunity against the committed rows alone: each one-shot marker an
\* unexpired opportunity qualifies for and that has no committed row is
\* written with this tick's time, whatever a rolled-back tick did before.
C21_RollbackLeavesCommittedRows ==
    [][/\ rollbacks' = rollbacks + 1 => (markers' = markers /\ snapshots' = snapshots)
       /\ (ticks' = ticks + 1 /\ rollbacks' = rollbacks) =>
             \A op \in ClaimOpps :
                /\ snapshots'[op.external_id] = snapshots[op.external_id] + 1
                /\ \A m \in QualifiedMarkers(op, clock) :
                      (m.kind # "siren" /\ ~MarkerExists(markers, op.external_id, m)) =>
                         [external_id |-> op.external_id, marker |-> m, created_at |-> clock]
                            \in markers']_vars

\* C21 witness: a tick was rolled back after it had sent a notification whose
\* marker row is not in the table, while a marker committed by another tick is
C21_Witness ==
    /\ rollbacks = 1
    /\ ticks >= 2
    /\ \E k \in DOMAIN notified : notified[k] >= 1 /\ ~MarkerExists(markers, k[1], k[2])
    /\ \E r \in markers : r.created_at < clock

\* the end time of op is at or before now, or under one whole minute (two
\* half minutes) is left
ClaimExpired(op, now) ==
    op.end_time # Null /\ (op.end_time <= now \/ op.end_time - now < 2)

\* the rows of the marker table for listing e
ClaimRowsOf(tbl, e) == {r \in tbl : r.external_id = e}

\* C22: in a tick, committed or rolled back, an opportunity that has ended or
\* has under one whole minute left gets no marker insert and no new_high,
\* bucket or siren notification; when the tick commits its snapshot is
\* appended all the same; an opportunity without end_time is not skipped: the
\* one-shot markers it qualifies for and lacks are written.
C22_ExpiredSkippedSnapshotKept ==
    [][ticks' = ticks + 1 =>
         \A op \in ClaimOpps :
            /\ ClaimExpired(op, clock) =>
                  /\ ClaimRowsOf(markers', op.external_id) = ClaimRowsOf(markers, op.external_id)
                  /\ \A k \in DOMAIN notified' :
                        k[1] = op.external_id => Count(notified', k) = Count(notified, k)
            /\ rollbacks' = rollbacks =>
                  /\ snapshots'[op.external_id] = snapshots[op.external_id] + 1
                  /\ op.end_time = Null =>
                        \A m \in {NewHigh, BucketMarker((4 * op.roi_num) \div op.roi_den)} :
                           (/\ m.kind = "new_high" => (op.profit >= 100000
                                                        /\ op.roi_num >= 3 * op.roi_den)
                            /\ m.kind = "bucket" => (op.profit >= 50000
                                                      /\ 4 * op.roi_num >= op.roi_den)
                            /\ ~MarkerExists(markers, op.external_id, m)) =>
                              /\ MarkerExists(markers', op.external_id, m)
                              /\ Count(notified', <<op.external_id, m>>)
                                   = Count(notified, <<op.external_id, m>>) + 1]_vars

\* C22 witness: listing e1 (profit and roi far above every threshold, 30 s
\* left at the tick) has a snapshot but no marker and no notification, while
\* e2, without end_time, has its markers
C22_Witness ==
    /\ clock = 10
    /\ listings["e1"].end_time = 11
    /\ listings["e1"].price_current = 60000
    /\ snapshots["e1"] >= 1
    /\ ClaimRowsOf(markers, "e1") = {}
    /\ \A k \in DOMAIN notified : k[1] # "e1"
    /\ ClaimRowsOf(markers, "e2") # {}

\* C23: the siren row of a listing changes, or a siren notification is sent,
\* only in a step that evaluates an opportunity for it with an end_time in the
\* future and at most 1 h (120 half minutes) away, profit >= 50, roi >= 0.25,
\* and no siren row or one at least the cooldown (5 min, 10 half minutes)
\* old; in every other case the row and the notification count stay as they are.
C23_SirenOnlyInWindowAndCooledDown ==
    [][\A e \in ExternalIds :
          (\/ {r \in ClaimRowsOf(markers', e) : r.marker = Siren}
                 # {r \in ClaimRowsOf(markers, e) : r.marker = Siren}
           \/ Count(notified', <<e, Siren>>) # Count(notified, <<e, Siren>>)) =>
             \E op \in ClaimOpps :
                /\ op.external_id = e
                /\ ticks' = ticks + 1
                /\ op.end_time # Null
                /\ op.end_time > clock
                /\ op.end_time - clock <= 120
                /\ op.profit >= 50000
                /\ 4 * op.roi_num >= op.roi_den
                /\ \A r \in ClaimRowsOf(markers, e) :
                      r.marker = Siren => clock - r.created_at >= 10]_vars

\* C23 witness: the siren of e1 was sent twice and its row carries the time of
\* the second send, one cooldown after the first
C23_Witness ==
    /\ clock = 10
    /\ rollbacks = 0
    /\ [external_id |-> "e1", marker |-> Siren, created_at |-> 10] \in markers
    /\ Count(notified, <<"e1", Siren>>) = 2

(***************************************************************************)
(* Claims about the digest.                                                *)
(***************************************************************************)
\* C24: any two digests that were delivered are at least EMAIL_COOLDOWN
\* (30 min, 60 half minutes) apart, and the alert_state row holds the time of
\* the latest delivered digest (no row before the first).
C24_DigestOncePerCooldown ==
    /\ \A i, j \in 1..Len(digests) : i < j => digests[j].t - digests[i].t >= 60
    /\ alertState = (IF digests = <<>> THEN Null ELSE digests[Len(digests)].t)

\* the external_ids some delivered digest listed
ClaimDigested == UNION {digests[i].items : i \in 1..Len(digests)}

\* C25: a digest delivered by a tick lists every alert an earlier tick created
\* for the digest (end time already past when the row was inserted) and that
\* no digest has listed yet, its own tick's digest having been held back by the
\* cooldown or lost to a failed send.
C25_DigestCarriesEarlierAlerts ==
    [][Len(digests') = Len(digests) + 1 =>
         \A r \in alerts :
            (/\ listings[r.external_id].end_time # Null
             /\ listings[r.external_id].end_time < r.created_at
             /\ r.external_id \notin ClaimDigested) =>
               r.external_id \in digests'[Len(digests')].items]_vars

(***************************************************************************)
(* Claims about the hot radar.                                             *)
(***************************************************************************)
\* the score C27 states, times 200 * median and before clamping:
\*   0.6 * margin_score + 0.3 * urgency - 0.5 * bids_penalty
\* with margin_score = min(1, (median - price) / median) when price < median,
\* 0 otherwise
ClaimRawScore(listing, m) ==
    120 * (IF listing.price_current # Null /\ listing.price_current < m
           THEN (IF m - listing.price_current < m THEN m - listing.price_current ELSE m)
           ELSE 0)
    + 6 * (IF listing.time_left_s = Null THEN 0
           ELSE IF listing.time_left_s <= 3600 THEN 10
           ELSE IF listing.time_left_s <= 14400 THEN 6
           ELSE IF listing.time_left_s <= 86400 THEN 2 ELSE 0) * m
    - 5 * (IF listing.bids_count = Null THEN 0
           ELSE IF listing.bids_count < 20 THEN listing.bids_count ELSE 20) * m

\* C27: for all inputs the score is 0.6 x margin_score + 0.3 x urgency
\* - 0.5 x bids_penalty clamped to [0, 1], the urgency and the bids terms
\* counting also when the price is not below the median.
C27_ScoreFormula ==
    fn.name = "snipe_score" =>
        LET m == fn.comp[1].median_final_price
            raw == ClaimRawScore(fn.listing, m)
        IN fn.out.num * ((200 * m) \div fn.out.den)
             = (IF raw < 0 THEN 0 ELSE IF raw > 200 * m THEN 200 * m ELSE raw)

(***************************************************************************)
(* Claims about the hot radar tick.                                        *)
(***************************************************************************)
\* C26: in one hot-radar tick an email is sent only for a listing whose alerts
\* row was inserted by that tick's upsert (created_now), at most
\* MAX_EMAILS_PER_TICK emails are sent, and over any sequence of ticks at most
\* one hot-radar email is sent per external_id.
C26_EmailOnlyFirstCreationCapped ==
    /\ hotTick.ran =>
          /\ \A i \in 1..Len(hotTick.sent) : hotTick.sent[i] \in hotTick.created
          /\ Len(hotTick.sent) <= hotTick.cap
    /\ \A e \in ExternalIds : hotMails[e] <= 1

\* the listing is live, ends within the window, has an investible model_key,
\* a latest comp with the minimum samples and a score at the threshold
ClaimHotQualifies(e) ==
    /\ listings[e].status = "live"
    /\ listings[e].end_time # Null
    /\ listings[e].end_time <= clock + WINDOW_HOURS * HalfMinutesPerHour
    /\ IsInvestibleModelKey(listings[e].model_key)
    /\ \E c \in latestComps :
          /\ c.model_key = listings[e].model_key
          /\ c.samples >= MIN_COMP_SAMPLES
          /\ \E sc \in {SnipeScore(HotListing(listings[e]), <<c>>)} :
                sc.num * 100 >= THRESHOLD_ALERT * sc.den

ClaimAggregated(k, now) ==
    {e \in DOMAIN listings :
        /\ listings[e].model_key = k
        /\ listings[e].status \in {"sold", "ended"}
        /\ (listings[e].final_price # Null \/ listings[e].price_current # Null)
        /\ listings[e].end_time # Null
        /\ listings[e].end_time >= now - COMPS_WINDOW_DAYS * HalfMinutesPerDay
        /\ listings[e].end_time <= now}

ClaimRealized(e) ==
    IF listings[e].final_price # Null THEN listings[e].final_price
    ELSE listings[e].price_current

\* C29: after any recompute every row of comps belongs to an investible
\* model_key (non-null, non-empty, not case-insensitively "unknown") and
\* aggregates only listings in status sold or ended with a non-null realized
\* price and an end time inside the trailing window.
C29_CompRowsInvestibleAndEligible ==
    [][(compsPc = "compute" /\ compsPc' = "prune") =>
          \A r \in comps' :
              /\ IsInvestibleModelKey(r.model_key)
              /\ r.samples = Cardinality(ClaimAggregated(r.model_key, clock))
              /\ \A e \in ClaimAggregated(r.model_key, clock) :
                    r.samples = 1 => r.median_final_price = ClaimRealized(e)]_vars

(***************************************************************************)
(* Claims about listings with data errors.                                 *)
(***************************************************************************)
\* the listing's model_key is null, empty or "unknown", there is no comp for
\* its model, or its comp has a median <= 0 or fewer than 3 samples
ClaimDataError(e) ==
    \/ listings[e].model_key \in {NullKey, <<>>}
    \/ Strip(listings[e].model_key) = <<>>
    \/ Lower(Strip(listings[e].model_key)) = <<"u", "n", "k", "n", "o", "w", "n">>
    \/ \A c \in comps :
          SplitModelKeyGrade(c.model_key)[1] # SplitModelKeyGrade(listings[e].model_key)[1]
    \/ \E c \in comps :
          /\ c.model_key = listings[e].model_key
          /\ (c.median_final_price <= 0 \/ c.samples < 3)

\* C30: a listing whose model_key is null, empty or "unknown", whose comp is
\* missing or has a median <= 0, or whose comp has fewer than 3 samples gets
\* no alerts row, no marker and no notification from the roi tick or the hot
\* radar tick, and no tick raises an error over it.
C30_DataErrorsSilentlyExcluded ==
    \A e \in ExternalIds :
        ClaimDataError(e) =>
            /\ AlertRowsOf(alerts, e) = {}
            /\ ClaimRowsOf(markers, e) = {}
            /\ \A k \in DOMAIN notified : k[1] # e
            /\ hotMails[e] = 0
            /\ \A i \in 1..Len(digests) : e \notin digests[i].items
            /\ e \notin hotTick.upserted
            /\ lastAlert.external_id # e

\* both pipelines have run over a listing with a data error and have recorded
\* the sound listing next to it
C30_Witness ==
    /\ ClaimDataError("e1")
    /\ "e1" \in hotTick.fetched
    /\ hotTick.upserted = {"e2"}
    /\ ClaimRowsOf(markers, "e2") # {}
    /\ alertCalls["e2"] >= 2

(***************************************************************************)
(* Further claims about the comp lookup.                                   *)
(***************************************************************************)
\* the comp the lookup selects: the exact match, else the first fallback
\* grade found; <<>> when there is none
ClaimSelected(model_key, cmap) ==
    IF model_key \in DOMAIN cmap THEN <<cmap[model_key]>>
    ELSE IF ClaimSplit(model_key)[1] # <<>> /\ ClaimAlternates(model_key, cmap) # {}
    THEN <<cmap[ClaimFirstAlternate(model_key, cmap)]>>
    ELSE <<>>

\* C31: the lookup never returns a comp with a non-positive median: when the
\* selected comp (the exact match, or the first fallback grade found) has a
\* null or <= 0 median, the result is (None, None) and no other grade of the
\* base is tried.
C31_NonPositiveMedianUnresolved ==
    ResolvedAKey =>
        /\ fn.out.found =>
              /\ fn.cmap[fn.out.comp_key].median_final_price # Null
              /\ fn.cmap[fn.out.comp_key].median_final_price > 0
              /\ fn.out.num > 0
        /\ \A c \in {ClaimSelected(fn.model_key, fn.cmap)} :
              (c # <<>> /\ (c[1].median_final_price = Null \/ c[1].median_final_price <= 0))
                  => fn.out = NoComp

\* C31 witness: "w_C" has no comp, "w_A" has one of median 0 and "w_B" one of
\* median 100.00; the lookup stops at "w_A" and returns (None, None)
C31_Witness ==
    /\ fn.name = "resolve"
    /\ fn.model_key = <<"w", "_", "C">>
    /\ DOMAIN fn.cmap = {KeyWA, KeyWB}
    /\ fn.cmap[KeyWA].median_final_price = 0
    /\ fn.cmap[KeyWB].median_final_price = 100000
    /\ fn.out = NoComp

(***************************************************************************)
(* Claims about failures caught inside the roi tick.                       *)
(***************************************************************************)
\* the opportunities of the tick the log is about
ClaimLoggedOpps ==
    BuildAllOppsForRoi(FetchActiveListings(tickLog'.order), 1, LatestCompsMap(comps))

\* C32: a failure to append the snapshot of one opportunity is logged and
\* never blocks: the marker checks of that opportunity and of all later
\* opportunities in the same tick still run, and their marker writes are
\* committed (the tick leaves the markers a tick without the failure leaves).
C32_SnapshotFailureNeverBlocks ==
    [][(ticks' = ticks + 1 /\ tickLog'.tick = ticks' /\ tickLog'.kind \in SnapshotFaults) =>
          markers' = RunProcessRoiAlerts(ClaimLoggedOpps, clock, NoFault).tbl]_vars

(***************************************************************************)
(* Further claims about the digest.                                        *)
(***************************************************************************)
\* the external_ids on the shortlist of a tick run now
ClaimSurvivors ==
    {e \in ExternalIds :
        \E order \in Orders :
            \E opps \in {Shortlist(FetchActiveListings(order), LatestCompsMap(comps),
                                   PER_SOURCE)} :
                \E i \in 1..Len(opps) : opps[i].external_id = e}

\* C33: the digest of a tick contains only shortlist survivors whose alerts
\* row was inserted in that tick and whose end_time is non-null and strictly
\* earlier than now; a newly created alert whose listing has a future or null
\* end_time is dropped before the cooldown check and is never emailed by the
\* digest.
C33_DigestOnlyNewlyCreatedPastEndTime ==
    [][/\ digests' # digests =>
             \A e \in digests'[Len(digests')].items :
                 /\ e \in ClaimSurvivors
                 /\ AlertRowsOf(alerts, e) = {}
                 /\ AlertRowsOf(alerts', e) # {}
                 /\ listings[e].end_time # Null
                 /\ listings[e].end_time < clock
       /\ \A e \in ExternalIds :
             (listings[e].end_time = Null \/ listings[e].end_time >= clock) =>
                 \A i \in 1..Len(digests') :
                     (e \in digests'[i].items => listings[e].end_time < digests'[i].t)
                     /\ (digests'[i].t = clock /\ i > Len(digests)
                         => e \notin digests'[i].items)]_vars

\* a digest went out for a listing that had ended while the alert created for
\* a listing without end_time stayed out of every digest
C33_Witness ==
    /\ Len(digests) >= 1
    /\ \E e \in ExternalIds : e \in digests[1].items /\ listings[e].end_time < digests[1].t
    /\ \E e \in ExternalIds :
          /\ listings[e].end_time = Null
          /\ AlertRowsOf(alerts, e) # {}
          /\ \A i \in 1..Len(digests) : e \notin digests[i].items

(***************************************************************************)
(* Claims about failing notifications and the two alert producers.         *)
(***************************************************************************)
\* C34: a transport failure while sending a new_high or bucket_n
\* notification is caught and non-fatal.  The tick in which it happens ends
\* exactly as the same tick without the failure: the remaining checks and
\* items are processed and the marker inserted just before the send is
\* committed with the tick's time.  No later tick notifies that milestone.
C34_SendFailureNonFatal ==
    [][tickLog'.kind \in SendStages =>
          /\ MarkerLastCreatedAt(markers', tickLog'.mark[1], tickLog'.mark[2]) # Null
          /\ IF tickLog' # tickLog
             THEN \E opps \in {BuildAllOppsForRoi(FetchActiveListings(tickLog'.order), 1,
                                                  LatestCompsMap(comps))} :
                  \E ok \in {RunProcessRoiAlerts(opps, clock, NoFault)} :
                     /\ ~ok.failed
                     /\ markers' = ok.tbl
                     /\ snapshots' = ok.snaps
                     /\ notified' = AddAll(notified, ok.mails, 1, MaxTicks + MaxRollbacks)
                     /\ MarkerLastCreatedAt(markers', tickLog'.mark[1], tickLog'.mark[2]) = clock
             ELSE Count(notified', tickLog.mark) = Count(notified, tickLog.mark)]_vars

\* a send failed for a milestone, a later tick met its thresholds again and
\* the milestone was not notified a second time
C34_Witness ==
    /\ tickLog.kind \in SendStages
    /\ tickLog.tick < ticks
    /\ Count(evals, tickLog.mark) >= 2
    /\ Count(notified, tickLog.mark) = 1

\* the score snipe_score gives the fetched row of e when its time left is
\* passed on as unknown
ClaimUnknownTimeLeftScore(e) ==
    SnipeScore([HotListing(listings[e]) EXCEPT !.time_left_s = Null],
               GetLatestCompForModel(listings[e].model_key))

\* C35: in a hot-radar tick a listing whose time_left_s is null is scored with
\* urgency 0 and not with the urgency 1.0 of a listing ending within the hour:
\* such a listing, once it has an investible key and a comp with enough
\* samples, is recorded exactly when its score with urgency 0 reaches the
\* threshold, and its alerts row carries that score.
C35_NullTimeLeftScoredWithoutUrgency ==
    [][ticks' # ticks /\ ~hotTick'.aborted =>
          \A e \in hotTick'.fetched :
             (/\ listings[e].time_left_s = Null
              /\ IsInvestibleModelKey(listings[e].model_key)
              /\ GetLatestCompForModel(listings[e].model_key) # <<>>
              /\ EnoughSamples(GetLatestCompForModel(listings[e].model_key)[1].samples))
             => \E sc \in {ClaimUnknownTimeLeftScore(e)} :
                   /\ e \in hotTick'.upserted <=> AtThreshold(sc)
                   /\ e \in hotTick'.upserted =>
                         \A r \in AlertRowsOf(alerts', e) : r.score = ScoreThousandths(sc)]_vars

\* C36: the roi shortlist and the hot radar upsert the same alerts row keyed
\* by external_id, and created_now is true for one call over the lifetime of a
\* row.  Once a row exists, whichever producer inserted it, no call of
\* record_alert returns created_now for it, no digest of the roi tick lists
\* the listing and the hot radar sends no email for it.
C36_CreatedNowForOneProducer ==
    [][\A e \in ExternalIds :
          AlertRowsOf(alerts, e) # {} =>
             /\ Cardinality(AlertRowsOf(alerts', e)) = 1
             /\ ~(/\ alertCalls'[e] # alertCalls[e]
                  /\ lastAlert'.external_id = e
                  /\ lastAlert'.kind = "returned"
                  /\ lastAlert'.created_now)
             /\ ticks' # ticks => e \notin (hotTick'.created \ hotTick.created)
             /\ \A i \in (Len(digests) + 1)..Len(digests') : e \notin digests'[i].items
             /\ hotMails'[e] = hotMails[e]]_vars

\* the hot radar inserted the row of e2; the roi tick after it shortlisted e1
\* and e2, both past their end time, and its digest lists e1 only
C36_Witness ==
    /\ "e2" \in hotTick.created
    /\ alertCalls["e2"] = 2
    /\ listings["e2"].end_time < clock
    /\ Len(digests) = 1
    /\ digests[1].items = {"e1"}

\* C37: after every recompute that reaches the done step the latest_comps view
\* the hot radar reads holds, for each model_key, the same row as the latest
\* row of comps the roi tick reads: the two readers value a model_key from the
\* same snapshot.
C37_ViewMatchesTableAfterDone ==
    [][(compsPc = "refresh" /\ compsPc' = "idle") =>
          \A k \in CompKeys(comps') \cup {c.model_key : c \in latestComps'} :
             /\ k \in CompKeys(comps')
             /\ GetLatestCompForModel(k)' = <<LatestCompsMap(comps')[k]>>]_vars

\* C38: an alerts row the hot radar creates in a tick where its email is
\* skipped because the cap was reached, or where the send fails, is never
\* emailed by a later hot-radar tick.  sent_at is set only directly after a
\* successful send: a row left without email keeps sent_at null and gets no
\* email in any later step, and a step that sets sent_at is a tick that sent
\* the email of that listing.
C38_UnsentRowNeverEmailedLater ==
    [][\A e \in ExternalIds :
          /\ (ticks' # ticks /\ e \in hotTick'.created
                /\ \A i \in 1..Len(hotTick'.sent) : hotTick'.sent[i] # e)
             => /\ hotMails'[e] = hotMails[e]
                /\ \A r \in AlertRowsOf(alerts', e) : r.sent_at = Null
          /\ (AlertRowsOf(alerts, e) # {} /\ \A r \in AlertRowsOf(alerts, e) : r.sent_at = Null)
             => /\ hotMails'[e] = hotMails[e]
                /\ \A r \in AlertRowsOf(alerts', e) : r.sent_at = Null
          /\ (\E r \in AlertRowsOf(alerts', e) : r.sent_at # Null)
             /\ (\A r \in AlertRowsOf(alerts, e) : r.sent_at = Null)
             => /\ ticks' # ticks
                /\ e \in hotTick'.created
                /\ \E i \in 1..Len(hotTick'.sent) : hotTick'.sent[i] = e
                /\ hotMails'[e] = hotMails[e] + 1]_vars

\* the first tick created the rows of e1 and e2 and emailed e2 only; the
\* second tick recorded both again and sent nothing, the row of e1 still has
\* no sent_at
C38_Witness ==
    /\ ticks = 2
    /\ hotTick.created = {}
    /\ hotTick.upserted = {"e1", "e2"}
    /\ ~hotTick.aborted
    /\ hotMails["e1"] = 0
    /\ hotMails["e2"] = 1
    /\ alertCalls["e1"] = 2
    /\ listings["e1"].price_current \notin HotPrices
    /\ AlertRowsOf(alerts, "e1") # {}
    /\ \A r \in AlertRowsOf(alerts, "e1") : r.sent_at = Null

============================================================================
